---------------------------- MODULE Spec2Model ----------------------------
(***************************************************************************)
(* Model of the indicator library MyTT.py and of its orchestrator          *)
(* TechnicalIndicators.calculate_all_indicators (core/indicators.py).      *)
(*                                                                         *)
(* A float is modelled as an exact rational or one of the IEEE specials:   *)
(*   [k |-> "num", n |-> numerator, d |-> denominator > 0]  (lowest terms) *)
(*   [k |-> "nan", n |-> 0, d |-> 1]                                       *)
(*   [k |-> "inf", n |-> +1 or -1, d |-> 1]                                *)
(*   [k |-> "sqrt", n, d]  the non-negative square root of n/d (STD only)  *)
(*   [k |-> "fmax", n |-> +1 or -1]  the largest finite float (nan_to_num) *)
(* A series is a sequence of such values; Python index i is position i+1.  *)
(***************************************************************************)
EXTENDS Integers, Sequences, FiniteSets, TLC

\* ------------------------------------------------------------- bounds ----
MaxLen == 5        \* longest series given to a one-series function
MaxPairLen == 3    \* longest series given to a two-series function
MaxVal == 2        \* series elements are drawn from 0..MaxVal
MaxN == 3          \* largest window / span parameter tried
MaxBars == 17      \* most bars of an OHLCV table
MaxCalls == 3      \* most calls made on one instance
RampBars == 60     \* most bars of a steadily rising close
MaxFetches == 3    \* most calls made on one DataFetcher
MaxRuns == 2       \* most runs of run_analysis on one StockAnalyzer
SigRows == 3       \* most rows of a table given to generate_trading_signals
MaxStocks == 2     \* most stocks given to select_stocks

\* ------------------------------------------------ float arithmetic -------
NaN == [k |-> "nan", n |-> 0, d |-> 1]
PInf == [k |-> "inf", n |-> 1, d |-> 1]
NInf == [k |-> "inf", n |-> -1, d |-> 1]

AbsI(x) == IF x < 0 THEN -x ELSE x
SignI(x) == IF x < 0 THEN -1 ELSE IF x > 0 THEN 1 ELSE 0

RECURSIVE GCD(_, _)
GCD(a, b) == IF b = 0 THEN a ELSE GCD(b, a % b)

Rat(n, d) ==
    LET s == IF d < 0 THEN -1 ELSE 1
        g == GCD(AbsI(n), AbsI(d))
    IN  [k |-> "num", n |-> (s * n) \div g, d |-> (s * d) \div g]

LCM(a, b) == (a \div GCD(a, b)) * b

Num(i) == [k |-> "num", n |-> i, d |-> 1]
IsNaN(v) == v.k = "nan"
IsNum(v) == v.k = "num"
IsInf(v) == v.k = "inf"
Sgn(v) == SignI(v.n)

Neg(a) == IF a.k = "nan" THEN NaN ELSE [a EXCEPT !.n = -a.n]

Add(a, b) ==
    IF IsNaN(a) \/ IsNaN(b) THEN NaN
    ELSE IF IsInf(a) /\ IsInf(b) THEN (IF a.n = b.n THEN a ELSE NaN)
    ELSE IF IsInf(a) THEN a
    ELSE IF IsInf(b) THEN b
    ELSE LET l == LCM(a.d, b.d)
         IN  Rat(a.n * (l \div a.d) + b.n * (l \div b.d), l)

Sub(a, b) == Add(a, Neg(b))

Mul(a, b) ==
    IF IsNaN(a) \/ IsNaN(b) THEN NaN
    ELSE IF IsInf(a) \/ IsInf(b)
         THEN (IF Sgn(a) * Sgn(b) = 0 THEN NaN
               ELSE IF Sgn(a) * Sgn(b) > 0 THEN PInf ELSE NInf)
    ELSE LET g1 == GCD(AbsI(a.n), b.d)
             g2 == GCD(AbsI(b.n), a.d)
         IN  Rat((a.n \div g1) * (b.n \div g2), (a.d \div g2) * (b.d \div g1))

\* IEEE division: x/0 is +-inf, 0/0 and inf/inf are NaN; nothing raises
Div(a, b) ==
    IF IsNaN(a) \/ IsNaN(b) THEN NaN
    ELSE IF IsInf(a) THEN (IF IsInf(b) THEN NaN
                           ELSE IF Sgn(b) < 0 THEN Neg(a) ELSE a)
    ELSE IF IsInf(b) THEN Num(0)
    ELSE IF b.n = 0 THEN (IF a.n = 0 THEN NaN
                          ELSE IF a.n > 0 THEN PInf ELSE NInf)
    ELSE Mul(a, Rat(b.d, b.n))

\* comparisons: every comparison with NaN is False
Gt(a, b) ==
    IF IsNaN(a) \/ IsNaN(b) THEN FALSE
    ELSE IF IsInf(a) THEN (a.n > 0 /\ ~(IsInf(b) /\ b.n > 0))
    ELSE IF IsInf(b) THEN b.n < 0
    ELSE a.n * b.d > b.n * a.d

EqF(a, b) == ~IsNaN(a) /\ ~IsNaN(b) /\ a = b
Le(a, b) == ~IsNaN(a) /\ ~IsNaN(b) /\ ~Gt(a, b)

\* a boolean as the number numpy sums it as
B2N(b) == IF b THEN Num(1) ELSE Num(0)

Ints(s) == [i \in 1..Len(s) |-> Num(s[i])]

\* ------------------------------------------------ level 0 primitives -----
RECURSIVE Pow10(_)
Pow10(D) == IF D = 0 THEN 1 ELSE 10 * Pow10(D - 1)

\* round half to even to D decimal places (np.round); D = 3 by default
Rint(n, d) ==
    LET q == n \div d
        r == n % d
    IN  IF 2 * r < d THEN q
        ELSE IF 2 * r > d THEN q + 1
        ELSE IF q % 2 = 0 THEN q ELSE q + 1

\* Rint(n * 10^D, d), one decimal digit at a time
RECURSIVE RintScaled(_, _, _)
RintScaled(n, d, D) ==
    IF D = 0 THEN Rint(n, d)
    ELSE (n \div d) * Pow10(D) + RintScaled((n % d) * 10, d, D - 1)

RD1(v) == IF IsNum(v) THEN Rat(RintScaled(v.n, v.d, 3), 1000) ELSE v
RD(S) == [i \in 1..Len(S) |-> RD1(S[i])]

ABS1(v) == IF IsNaN(v) THEN NaN ELSE [v EXCEPT !.n = AbsI(v.n)]
ABS(S) == [i \in 1..Len(S) |-> ABS1(S[i])]

\* np.maximum / np.minimum propagate NaN
MAX1(a, b) == IF IsNaN(a) \/ IsNaN(b) THEN NaN ELSE IF Gt(b, a) THEN b ELSE a
MIN1(a, b) == IF IsNaN(a) \/ IsNaN(b) THEN NaN ELSE IF Gt(a, b) THEN b ELSE a
MAX(S1s, S2s) == [i \in 1..Len(S1s) |-> MAX1(S1s[i], S2s[i])]
MIN(S1s, S2s) == [i \in 1..Len(S1s) |-> MIN1(S1s[i], S2s[i])]

\* the N values ending at position p, and whether rolling(N) has N
\* observations there (min_periods = N: a short or NaN-holding window is NaN)
Window(S, N, p) == [j \in 1..N |-> S[p - N + j]]
Full(S, N, p) == p >= N /\ \A j \in (p - N + 1)..p : ~IsNaN(S[j])

RECURSIVE SumSeq(_)
SumSeq(w) == IF Len(w) = 0 THEN Num(0) ELSE Add(w[1], SumSeq(Tail(w)))

RECURSIVE MaxSeq(_)
MaxSeq(w) == IF Len(w) = 1 THEN w[1] ELSE MAX1(w[1], MaxSeq(Tail(w)))

RECURSIVE MinSeq(_)
MinSeq(w) == IF Len(w) = 1 THEN w[1] ELSE MIN1(w[1], MinSeq(Tail(w)))

MeanSeq(w) == Div(SumSeq(w), Num(Len(w)))

\* (faulty variant) rolling with min_periods=1: a short window is averaged
MAPartial(S, N) ==
    [p \in 1..Len(S) |-> MeanSeq(Window(S, IF p < N THEN p ELSE N, p))]

MA(S, N) ==
    [p \in 1..Len(S) |-> IF Full(S, N, p) THEN MeanSeq(Window(S, N, p)) ELSE NaN]

REF(S, N) == [p \in 1..Len(S) |-> IF p > N THEN S[p - N] ELSE NaN]

\* (faulty variant) np.diff drops the leading rows instead of padding them with NaN
DIFFDropping(S, N) == [p \in 1..(Len(S) - N) |-> Sub(S[p + N], S[p])]

DIFF(S, N) == [p \in 1..Len(S) |-> IF p > N THEN Sub(S[p], S[p - N]) ELSE NaN]

SUM(S, N) ==
    [p \in 1..Len(S) |-> IF Full(S, N, p) THEN SumSeq(Window(S, N, p)) ELSE NaN]

HHV(S, N) ==
    [p \in 1..Len(S) |-> IF Full(S, N, p) THEN MaxSeq(Window(S, N, p)) ELSE NaN]

LLV(S, N) ==
    [p \in 1..Len(S) |-> IF Full(S, N, p) THEN MinSeq(Window(S, N, p)) ELSE NaN]

\* np.where; a scalar branch is broadcast with Const
Const(v, len) == [i \in 1..len |-> v]
IF_(C, T, F) == [i \in 1..Len(C) |-> IF C[i] THEN T[i] ELSE F[i]]

\* square root, kept symbolic unless the radicand is a perfect square
IsSquare(x) == \E r \in 0..x : r * r = x
Root(x) == CHOOSE r \in 0..x : r * r = x
Sqrt(v) ==
    IF ~IsNum(v) THEN v
    ELSE IF v.n < 0 THEN NaN
    ELSE IF IsSquare(v.n) /\ IsSquare(v.d) THEN Rat(Root(v.n), Root(v.d))
    ELSE [k |-> "sqrt", n |-> v.n, d |-> v.d]

SqDevSeq(w) ==
    LET mean == MeanSeq(w)
    IN  [j \in 1..Len(w) |-> Mul(Sub(w[j], mean), Sub(w[j], mean))]

\* rolling(N).std(ddof): sum of squared deviations over (N - ddof)
RollStd(S, N, ddof) ==
    [p \in 1..Len(S) |->
        IF Full(S, N, p)
        THEN Sqrt(Div(SumSeq(SqDevSeq(Window(S, N, p))), Num(N - ddof)))
        ELSE NaN]

\* (faulty variant) the sample standard deviation, ddof = 1
STDSample(S, N) == RollStd(S, N, 1)

STD(S, N) == RollStd(S, N, 0)

\* pandas ewm(span=N, adjust=False).mean(): alpha = 2/(N+1), min_periods 1,
\* ignore_na False.  st = [w |-> weighted average, old |-> old_wt]
\* (faulty variant) the weight 1/N instead of 2/(N+1)
AlphaWilder(N) == Rat(1, N)

Alpha(N) == Rat(2, N + 1)

EwmStep(st, cur, N) ==
    IF ~IsNaN(st.w)
    THEN LET old == Mul(st.old, Sub(Num(1), Alpha(N)))
         IN  IF IsNaN(cur) THEN [w |-> st.w, old |-> old]
             ELSE [w |-> IF st.w # cur
                         THEN Div(Add(Mul(old, st.w), Mul(Alpha(N), cur)),
                                  Add(old, Alpha(N)))
                         ELSE st.w,
                   old |-> Num(1)]
    ELSE IF ~IsNaN(cur) THEN [w |-> cur, old |-> st.old]
    ELSE st

RECURSIVE EwmLoop(_, _, _, _, _)
EwmLoop(out, st, S, N, i) ==
    IF i > Len(S) THEN out
    ELSE LET nx == EwmStep(st, S[i], N)
         IN  EwmLoop(Append(out, nx.w), nx, S, N, i + 1)

EMA(S, N) ==
    IF Len(S) = 0 THEN <<>>
    ELSE EwmLoop(<<S[1]>>, [w |-> S[1], old |-> Num(1)], S, N, 2)

\* China-style SMA: K = rolling mean, then for i in range(N+1, len(S)):
\* K[i] = (M*S[i] + (N-M)*K[i-1]) / N       (Python i is position i+1)
\* (faulty variant) the recurrence on the previous raw value
SMAStepRaw(K, S, N, M, p) ==
    Div(Add(Mul(Num(M), S[p]), Mul(Num(N - M), S[p - 1])), Num(N))

SMAStep(K, S, N, M, p) ==
    Div(Add(Mul(Num(M), S[p]), Mul(Num(N - M), K[p - 1])), Num(N))

RECURSIVE SMALoop(_, _, _, _, _)
SMALoop(K, S, N, M, p) ==
    IF p > Len(S) THEN K
    ELSE SMALoop([K EXCEPT ![p] = SMAStep(K, S, N, M, p)], S, N, M, p + 1)

SMA(S, N, M) == SMALoop(MA(S, N), S, N, M, N + 2)

AVEDEV(S, N) ==
    [p \in 1..Len(S) |->
        IF Full(S, N, p)
        THEN LET w == Window(S, N, p)
                 mean == MeanSeq(w)
             IN  MeanSeq([j \in 1..N |-> ABS1(Sub(w[j], mean))])
        ELSE NaN]

\* S[-N:] for N >= 1: the last min(N, len) elements
LastN(S, N) ==
    LET m == IF N < Len(S) THEN N ELSE Len(S)
    IN  [j \in 1..m |-> S[Len(S) - m + j]]

\* np.polyfit(x, y, 1) with x = 0..m-1, then np.polyval: the fitted line Y
PolyFit(y) ==
    LET m == Len(y)
        sx == SumSeq([j \in 1..m |-> Num(j - 1)])
        sxx == SumSeq([j \in 1..m |-> Num((j - 1) * (j - 1))])
        sy == SumSeq(y)
        sxy == SumSeq([j \in 1..m |-> Mul(Num(j - 1), y[j])])
        slope == Div(Sub(Mul(Num(m), sxy), Mul(sx, sy)),
                     Sub(Mul(Num(m), sxx), Mul(sx, sx)))
        icpt == Div(Sub(sy, Mul(slope, sx)), Num(m))
    IN  [j \in 1..m |-> Add(Mul(slope, Num(j - 1)), icpt)]

\* SLOPE returns the scalar Y[1]-Y[0]; it raises (IndexError) on < 2 points
SlopeRaises(S, N) == Len(LastN(S, N)) < 2
\* (faulty variant) the rise of the fitted line over the whole window
SLOPESpan(S, N) == LET Y == PolyFit(LastN(S, N)) IN Sub(Y[Len(Y)], Y[1])

SLOPE(S, N) == LET Y == PolyFit(LastN(S, N)) IN Sub(Y[2], Y[1])

FORCAST(S, N) ==
    LET Y == PolyFit(LastN(S, N)) IN Add(Y[Len(Y)], SLOPE(S, N))

\* RET: np.array(S)[-N]; raises (IndexError) when N > len(S)
RetRaises(S, N) == N > Len(S)
RET(S, N) == S[Len(S) - N + 1]

\* ------------------------------------------------ level 1 combinators ----
COUNT(S_BOOL, N) == SUM([i \in 1..Len(S_BOOL) |-> B2N(S_BOOL[i])], N)

EVERY(S_BOOL, N) ==
    LET R == SUM([i \in 1..Len(S_BOOL) |-> B2N(S_BOOL[i])], N)
    IN  IF_([i \in 1..Len(R) |-> EqF(R[i], Num(N))],
            Const(TRUE, Len(R)), Const(FALSE, Len(R)))

\* (faulty variant) the test is R >= 0, so a window without a true passes
EXISTNonNegative(S_BOOL, N) ==
    LET R == SUM([i \in 1..Len(S_BOOL) |-> B2N(S_BOOL[i])], N)
    IN  IF_([i \in 1..Len(R) |-> Le(Num(0), R[i])],
            Const(TRUE, Len(R)), Const(FALSE, Len(R)))

EXIST(S_BOOL, N) ==
    LET R == SUM([i \in 1..Len(S_BOOL) |-> B2N(S_BOOL[i])], N)
    IN  IF_([i \in 1..Len(R) |-> Gt(R[i], Num(0))],
            Const(TRUE, Len(R)), Const(FALSE, Len(R)))

\* Python slice S[-A:-B] as the positions it selects (-0 is 0)
SliceStart(len, A) == IF A = 0 THEN 0 ELSE IF A > len THEN 0 ELSE len - A
SliceStop(len, B) == IF B = 0 THEN 0 ELSE IF B > len THEN 0 ELSE len - B
NegSlice(S, A, B) ==
    LET lo == SliceStart(Len(S), A)
        hi == SliceStop(Len(S), B)
    IN  IF lo < hi THEN [j \in 1..(hi - lo) |-> S[lo + j]] ELSE <<>>

LAST(S_BOOL, A, B) ==
    LET A2 == IF A < B THEN B ELSE A
        sl == NegSlice(S_BOOL, A2, B)
    IN  Cardinality({j \in 1..Len(sl) : sl[j]}) = A2 - B

\* (faulty variant) the first true element is taken, not the last
BARSLASTFirst(S_BOOL) ==
    LET M == {j \in 1..Len(S_BOOL) : S_BOOL[j]}
    IN  IF M # {} THEN Len(S_BOOL) - ((CHOOSE j \in M : \A h \in M : j <= h) - 1) - 1
        ELSE -1

BARSLAST(S_BOOL) ==
    LET M == {j \in 1..Len(S_BOOL) : S_BOOL[j]}
    IN  IF M # {} THEN Len(S_BOOL) - ((CHOOSE j \in M : \A h \in M : h <= j) - 1) - 1
        ELSE -1

CROSS(S1s, S2s) ==
    LET CROSS_BOOL == IF_([i \in 1..Len(S1s) |-> Gt(S1s[i], S2s[i])],
                          Const(TRUE, Len(S1s)), Const(FALSE, Len(S1s)))
        C == COUNT(CROSS_BOOL, 2)
    IN  [i \in 1..Len(S1s) |-> EqF(C[i], Num(1))]

\* ------------------------------------------------ level 2 indicators -----
SubS(A, B) == [i \in 1..Len(A) |-> Sub(A[i], B[i])]
DivS(A, B) == [i \in 1..Len(A) |-> Div(A[i], B[i])]
ScaleS(A, c) == [i \in 1..Len(A) |-> Mul(A[i], Num(c))]

\* (faulty variant) the histogram is DIF - DEA, not doubled
MACDSingle(CLOSE, SHORT, LONG, M) ==
    LET DIF == SubS(EMA(CLOSE, SHORT), EMA(CLOSE, LONG))
        DEA == EMA(DIF, M)
        MACD_ == SubS(DIF, DEA)
    IN  <<RD(DIF), RD(DEA), RD(MACD_)>>

MACD(CLOSE, SHORT, LONG, M) ==
    LET DIF == SubS(EMA(CLOSE, SHORT), EMA(CLOSE, LONG))
        DEA == EMA(DIF, M)
        MACD_ == ScaleS(SubS(DIF, DEA), 2)
    IN  <<RD(DIF), RD(DEA), RD(MACD_)>>

RSI(CLOSE, N) ==
    LET DIF == SubS(CLOSE, REF(CLOSE, 1))
    IN  RD(ScaleS(DivS(SMA(MAX(DIF, Const(Num(0), Len(DIF))), N, 1),
                       SMA(ABS(DIF), N, 1)), 100))

AddS(A, B) == [i \in 1..Len(A) |-> Add(A[i], B[i])]

KDJ(CLOSE, HIGH, LOW, N, M1, M2) ==
    LET RSV == ScaleS(DivS(SubS(CLOSE, LLV(LOW, N)),
                           SubS(HHV(HIGH, N), LLV(LOW, N))), 100)
        K == EMA(RSV, M1 * 2 - 1)
        D == EMA(K, M2 * 2 - 1)
        J == SubS(ScaleS(K, 3), ScaleS(D, 2))
    IN  <<K, D, J>>

\* (faulty variant) the numerator is CLOSE - HHV, the sign turned
WRInverted(CLOSE, HIGH, LOW, N, N1) ==
    LET WR_ == ScaleS(DivS(SubS(CLOSE, HHV(HIGH, N)),
                           SubS(HHV(HIGH, N), LLV(LOW, N))), 100)
        WR1 == ScaleS(DivS(SubS(CLOSE, HHV(HIGH, N1)),
                           SubS(HHV(HIGH, N1), LLV(LOW, N1))), 100)
    IN  <<RD(WR_), RD(WR1)>>
WR(CLOSE, HIGH, LOW, N, N1) ==
    LET WR_ == ScaleS(DivS(SubS(HHV(HIGH, N), CLOSE),
                           SubS(HHV(HIGH, N), LLV(LOW, N))), 100)
        WR1 == ScaleS(DivS(SubS(HHV(HIGH, N1), CLOSE),
                           SubS(HHV(HIGH, N1), LLV(LOW, N1))), 100)
    IN  <<RD(WR_), RD(WR1)>>

\* ---- names MyTT defines twice: the def statements in source order; a
\* later def rebinds the name, so the module attribute is the last one
Def(name, line) == [name |-> name, line |-> line]
Defs == <<
    Def("TRIX", 143), Def("DMA", 152), Def("CCI", 160), Def("PSY", 168),
    Def("BIAS", 174), Def("DMI", 181), Def("VR", 205), Def("BRAR", 215),
    Def("EMV", 221), Def("ROC", 233), Def("MTM", 239), Def("DPO", 245),
    Def("ATR", 251), Def("BOLL", 260), Def("BIAS", 273), Def("BOLL", 279),
    Def("PSY", 285), Def("CCI", 290), Def("ATR", 294), Def("DMI", 301),
    Def("TRIX", 315), Def("VR", 321), Def("EMV", 325), Def("DPO", 331),
    Def("BRAR", 335), Def("DMA", 340), Def("MTM", 344), Def("ROC", 348) >>

\* (faulty variant) the first def of a name stays bound
BoundFirst(name) ==
    Defs[CHOOSE i \in 1..Len(Defs) :
            /\ Defs[i].name = name
            /\ \A j \in 1..(i - 1) : Defs[j].name # name].line
Bound(name) ==
    Defs[CHOOSE i \in 1..Len(Defs) :
            /\ Defs[i].name = name
            /\ \A j \in (i + 1)..Len(Defs) : Defs[j].name # name].line

\* the CCI of line 160: rounded
CCI_160(CLOSE, HIGH, LOW, N) ==
    LET tp == DivS(AddS(AddS(HIGH, LOW), CLOSE), Const(Num(3), Len(CLOSE)))
        ma_tp == MA(tp, N)
        md == AVEDEV(tp, N)
        cci == DivS(SubS(tp, ma_tp),
                    [i \in 1..Len(md) |-> Mul(Rat(15, 1000), md[i])])
    IN  RD(cci)
\* the CCI of line 290: not rounded
CCI_290(CLOSE, HIGH, LOW, N) ==
    LET TP == DivS(AddS(AddS(HIGH, LOW), CLOSE), Const(Num(3), Len(CLOSE)))
        avedev == AVEDEV(TP, N)
    IN  DivS(SubS(TP, MA(TP, N)),
             [i \in 1..Len(TP) |-> Mul(Rat(15, 1000), avedev[i])])
CCI(CLOSE, HIGH, LOW, N) ==
    IF Bound("CCI") = 290 THEN CCI_290(CLOSE, HIGH, LOW, N)
    ELSE CCI_160(CLOSE, HIGH, LOW, N)

\* the ATR of line 251: rounded
ATR_251(CLOSE, HIGH, LOW, N) ==
    LET tr1 == SubS(HIGH, LOW)
        tr2 == ABS(SubS(HIGH, REF(CLOSE, 1)))
        tr3 == ABS(SubS(REF(CLOSE, 1), LOW))
        tr == MAX(MAX(tr1, tr2), tr3)
    IN  RD(MA(tr, N))
\* (faulty variant) the range of a bar is taken as HIGH + LOW
ATR_294Sum(CLOSE, HIGH, LOW, N) ==
    LET TR == MAX(MAX(AddS(HIGH, LOW), ABS(SubS(REF(CLOSE, 1), HIGH))),
                  ABS(SubS(REF(CLOSE, 1), LOW)))
    IN  MA(TR, N)
\* the ATR of line 294: not rounded
ATR_294(CLOSE, HIGH, LOW, N) ==
    LET TR == MAX(MAX(SubS(HIGH, LOW), ABS(SubS(REF(CLOSE, 1), HIGH))),
                  ABS(SubS(REF(CLOSE, 1), LOW)))
    IN  MA(TR, N)
ATR(CLOSE, HIGH, LOW, N) ==
    IF Bound("ATR") = 294 THEN ATR_294(CLOSE, HIGH, LOW, N)
    ELSE ATR_251(CLOSE, HIGH, LOW, N)

\* CLOSE > lc and the like as boolean series; a comparison with NaN is false
GtS(A, B) == [i \in 1..Len(A) |-> Gt(A[i], B[i])]
LtS(A, B) == [i \in 1..Len(A) |-> Gt(B[i], A[i])]
EqS(A, B) == [i \in 1..Len(A) |-> EqF(A[i], B[i])]
LeS(A, B) == [i \in 1..Len(A) |-> Le(A[i], B[i])]

\* the VR of line 205: the volume of unchanged closes is split, rounded
VR_205(CLOSE, VOLUME, N) ==
    LET lc == REF(CLOSE, 1)
        zero == Const(Num(0), Len(CLOSE))
        two == Const(Num(2), Len(CLOSE))
        up_vol == SUM(IF_(GtS(CLOSE, lc), VOLUME, zero), N)
        down_vol == SUM(IF_(LtS(CLOSE, lc), VOLUME, zero), N)
        eq_vol == SUM(IF_(EqS(CLOSE, lc), VOLUME, zero), N)
        vr == ScaleS(DivS(AddS(up_vol, DivS(eq_vol, two)),
                          AddS(down_vol, DivS(eq_vol, two))), 100)
    IN  RD(vr)
\* the VR of line 321: unchanged closes count as down, not rounded
VR_321(CLOSE, VOL, M1) ==
    LET LC == REF(CLOSE, 1)
        zero == Const(Num(0), Len(CLOSE))
    IN  ScaleS(DivS(SUM(IF_(GtS(CLOSE, LC), VOL, zero), M1),
                    SUM(IF_(LeS(CLOSE, LC), VOL, zero), M1)), 100)
VR(CLOSE, VOL, M1) ==
    IF Bound("VR") = 321 THEN VR_321(CLOSE, VOL, M1) ELSE VR_205(CLOSE, VOL, M1)

\* ---- OBV: mem is the memory of the call, the array obv it allocates and
\* the two arrays it was given; i is the 0-based loop index
\* (faulty variant) obv is the VOLUME array itself, written in place
RECURSIVE OBVLoopInPlace(_, _)
OBVLoopInPlace(mem, i) ==
    IF i >= Len(mem.CLOSE) THEN mem
    ELSE LET p == i + 1
             v == IF Gt(mem.CLOSE[p], mem.CLOSE[p - 1])
                  THEN Add(mem.obv[p - 1], mem.VOLUME[p])
                  ELSE IF Gt(mem.CLOSE[p - 1], mem.CLOSE[p])
                  THEN Sub(mem.obv[p - 1], mem.VOLUME[p])
                  ELSE mem.obv[p - 1]
         IN  OBVLoopInPlace([mem EXCEPT !.obv[p] = v, !.VOLUME[p] = v], i + 1)
RECURSIVE OBVLoop(_, _)
OBVLoop(mem, i) ==
    IF i >= Len(mem.CLOSE) THEN mem
    ELSE LET p == i + 1
             v == IF Gt(mem.CLOSE[p], mem.CLOSE[p - 1])
                  THEN Add(mem.obv[p - 1], mem.VOLUME[p])
                  ELSE IF Gt(mem.CLOSE[p - 1], mem.CLOSE[p])
                  THEN Sub(mem.obv[p - 1], mem.VOLUME[p])
                  ELSE mem.obv[p - 1]
         IN  OBVLoop([mem EXCEPT !.obv[p] = v], i + 1)

\* what the call returns, and the two input arrays as it leaves them
OBV(CLOSE, VOLUME) ==
    LET zeros == Const(Num(0), Len(CLOSE))
        mem == OBVLoop([obv |-> [zeros EXCEPT ![1] = VOLUME[1]],
                        CLOSE |-> CLOSE, VOLUME |-> VOLUME], 1)
    IN  [ret |-> RD(mem.obv), CLOSE |-> mem.CLOSE, VOLUME |-> mem.VOLUME]

\* ------------------------------------------------------------ state ------
\* S1, S2: the series handed to the library functions
\* ret:    the last library call and what it returned:
\*         kind "series" - val is the tuple of returned series
\*         kind "scalar" - val is <<the single value returned>>
\*         kind "raise"  - the call raised, val is <<>>
\* df:     the caller's table, handed to calculate_all_indicators
\* out:    what calculate_all_indicators returned and logged
\* hist:   the calls made so far on the TechnicalIndicators instance, each
\*         with the table it was given and what it returned
\* valid:  what validate_data returned for df
\* data_cache: the cache of the DataFetcher, cache key -> stored table
\* fetched:    the last call on the DataFetcher, what it returned and
\*             whether it asked the data source; calls counts the calls
\* stock_names, interactive_charts, data_dict, processed_data_dict: the
\*             fields of a StockAnalyzer; run: where its run_analysis stands,
\*             the steps it has logged, the charts the report asked for and
\*             what the run returned
\* stock_data_dict, ai_sentiments, results: the arguments of select_stocks
\*             and what it returned
\* sig_df, signals: the table given to generate_trading_signals and the
\*             list it returned
VARIABLES S1, S2, ret, df, out, hist, valid, data_cache, fetched,
          stock_names, interactive_charts, data_dict, processed_data_dict, run,
          sig_df, signals, stock_data_dict, ai_sentiments, results
core == <<S1, S2, ret, df, out, hist>>
validVars == <<valid>>
fetchVars == <<data_cache, fetched>>
runVars == <<stock_names, interactive_charts, data_dict, processed_data_dict, run>>
sigVars == <<sig_df, signals>>
selVars == <<stock_data_dict, ai_sentiments, results>>
others == <<validVars, fetchVars, runVars, sigVars, selVars>>
vars == <<core, others>>

\* ------------------------------------------------ orchestrator ----------
\* np.nan_to_num(x, nan=v): NaN becomes v, +-inf the largest finite float
\* (faulty variant) the NaN is stored as it is
NanToNum1Kept(v, nan) == v

NanToNum1(v, nan) ==
    IF IsNaN(v) THEN nan
    ELSE IF IsInf(v) THEN [k |-> "fmax", n |-> v.n, d |-> 1]
    ELSE v
NanToNum(S, nan) == [i \in 1..Len(S) |-> NanToNum1(S[i], nan)]

RequiredColumns == <<"close", "open", "high", "low", "volume">>
WarnBars == 60         \* fewer rows than this only logs a warning
RSI_N_MyTTDefault == 24   \* (faulty variant) the period RSI has when none is passed
RSI_N == 14            \* the period the orchestrator passes to RSI
RSI_FILL == 50         \* what the orchestrator stores for a NaN RSI

\* the indicator calls of the six _calculate_* methods, in call order:
\* the input columns each call computes on, the columns it assigns and the
\* period arguments the call site passes explicitly (none = the defaults)
Call(grp, ind, uses, cols, over) ==
    [grp |-> grp, ind |-> ind, uses |-> uses, cols |-> cols, over |-> over]

CHL == {"close", "high", "low"}

Calls == <<
    Call("trend", "MACD", {"close"}, <<"MACD", "DIF", "DEA">>, <<>>),
    Call("trend", "TRIX", {"close"}, <<"TRIX", "TRMA">>, <<>>),
    Call("trend", "DMI", CHL, <<"PDI", "MDI", "ADX", "ADXR">>, <<>>),
    Call("trend", "DMA", {"close"}, <<"DIF_DMA", "DIFMA_DMA">>, <<>>),
    Call("oscillator", "KDJ", CHL, <<"K", "D", "J">>, <<>>),
    Call("oscillator", "RSI", {"close"}, <<"RSI">>, <<RSI_N>>),
    Call("oscillator", "PSY", {"close"}, <<"PSY", "PSYMA">>, <<>>),
    Call("oscillator", "WR", CHL, <<"WR", "WR1">>, <<>>),
    Call("oscillator", "BIAS", {"close"}, <<"BIAS1", "BIAS2", "BIAS3">>, <<>>),
    Call("oscillator", "CCI", CHL, <<"CCI">>, <<>>),
    Call("volume", "VR", {"close", "volume"}, <<"VR">>, <<>>),
    Call("volume", "BRAR", CHL \cup {"open"}, <<"AR", "BR">>, <<>>),
    Call("volume", "EMV", {"high", "low", "volume"}, <<"EMV", "MAEMV">>, <<>>),
    Call("momentum", "ROC", {"close"}, <<"ROC", "MAROC">>, <<>>),
    Call("momentum", "MTM", {"close"}, <<"MTM", "MTMMA">>, <<>>),
    Call("momentum", "DPO", {"close"}, <<"DPO", "MADPO">>, <<>>),
    Call("ma", "MA", {"close"}, <<"MA5">>, <<5>>),
    Call("ma", "MA", {"close"}, <<"MA10">>, <<10>>),
    Call("ma", "MA", {"close"}, <<"MA20">>, <<20>>),
    Call("ma", "MA", {"close"}, <<"MA60">>, <<60>>),
    Call("volatility", "BOLL", {"close"}, <<"BOLL_UP", "BOLL_MID", "BOLL_LOW">>, <<>>),
    Call("volatility", "ATR", CHL, <<"ATR">>, <<>>) >>

Groups == <<"trend", "oscillator", "volume", "momentum", "ma", "volatility">>

NonNumeric(t) == {c \in DOMAIN t.bad : t.bad[c] = "nonnum"}
\* (faulty variant) an absent column is not noticed
MissingIgnored(t) == {}
Missing(t) == {c \in DOMAIN t.bad : t.bad[c] = "missing"}

\* a _calculate_* method raises when one of its indicators computes on a
\* column whose values are not numbers; it logs its own error and re-raises
\* (faulty variant) a table of fewer than WarnBars rows makes the group fail
GroupRaisesOnFewRows(t, g) ==
    \/ t.n < WarnBars
    \/ \E i \in 1..Len(Calls) : Calls[i].grp = g /\ Calls[i].uses \cap NonNumeric(t) # {}

GroupRaises(t, g) ==
    \E i \in 1..Len(Calls) : Calls[i].grp = g /\ Calls[i].uses \cap NonNumeric(t) # {}

RECURSIVE ColsOf(_, _)
ColsOf(g, i) ==
    IF i > Len(Calls) THEN <<>>
    ELSE (IF Calls[i].grp = g THEN Calls[i].cols ELSE <<>>) \o ColsOf(g, i + 1)

\* np.array(df['close']): the numbers of the column, NaN on every row of a
\* column that holds no value
CloseOf(t) == IF t.bad["close"] = "allnan" THEN Const(NaN, t.n) ELSE Ints(t.close)

\* the values of the columns whose numbers the model computes
ModelledCols == {"RSI", "MA5", "MA10", "MA20", "MA60"}
\* (faulty variant) the instance keeps the close array of its previous call
ColumnValueStale(c, t) ==
    LET src == IF hist = <<>> THEN t ELSE hist[Len(hist)].t
        close == CloseOf(src)
    IN  CASE c = "RSI" -> NanToNum(RSI(close, RSI_N), Num(RSI_FILL))
          [] c = "MA5" -> MA(close, 5)
          [] c = "MA10" -> MA(close, 10)
          [] c = "MA20" -> MA(close, 20)
          [] c = "MA60" -> MA(close, 60)
ColumnValue(c, t) ==
    LET close == CloseOf(t)
    IN  CASE c = "RSI" -> NanToNum(RSI(close, RSI_N), Num(RSI_FILL))
          [] c = "MA5" -> MA(close, 5)
          [] c = "MA10" -> MA(close, 10)
          [] c = "MA20" -> MA(close, 20)
          [] c = "MA60" -> MA(close, 60)

\* (faulty variant) a group that raises is logged and skipped, the others still run
RECURSIVE RunGroupsIsolated(_, _, _)
RunGroupsIsolated(t, st, gi) ==
    IF gi > Len(Groups) THEN st
    ELSE IF GroupRaises(t, Groups[gi])
         THEN RunGroupsIsolated(t, [st EXCEPT !.log =
                                       Append(@, <<"error", Groups[gi]>>)], gi + 1)
         ELSE RunGroupsIsolated(t, [st EXCEPT !.columns =
                                       @ \o ColsOf(Groups[gi], 1)], gi + 1)

\* the six calls of lines 53-58: st = [raised, columns, log]
RECURSIVE RunGroups(_, _, _)
RunGroups(t, st, gi) ==
    IF gi > Len(Groups) THEN st
    ELSE IF GroupRaises(t, Groups[gi])
         THEN [raised |-> TRUE, columns |-> st.columns,
               log |-> Append(st.log, <<"error", Groups[gi]>>)]
         ELSE RunGroups(t, [st EXCEPT !.columns = @ \o ColsOf(Groups[gi], 1)], gi + 1)

AllOk == [c \in {"open", "high", "low", "close", "volume"} |-> "ok"]
\* no table (None); added: the indicator columns the table object holds
NoTable == [kind |-> "none", n |-> 0, bad |-> AllOk, close |-> <<>>, open |-> <<>>,
            high |-> <<>>, low |-> <<>>, volume |-> <<>>, added |-> <<>>]
NoBase == [c \in DOMAIN AllOk |-> <<>>]

\* base: the OHLCV columns of the returned table; input: the caller's table
\* object as it is when the call returns
Pending == [ret |-> "pending", columns |-> <<>>, vals |-> <<>>, log |-> <<>>,
            base |-> NoBase, input |-> NoTable]
ReturnNone(log, t) == [ret |-> "None", columns |-> <<>>, vals |-> <<>>, log |-> log,
                       base |-> NoBase, input |-> t]

\* (faulty variant) no copy is taken: the groups assign into the caller's table
WorkTableAliased(t) == [obj |-> "input", base |-> [c \in DOMAIN AllOk |-> t[c]]]
\* df_with_indicators = df.copy(): a table object of its own that holds the
\* columns and values of the input
WorkTable(t) == [obj |-> "copy", base |-> [c \in DOMAIN AllOk |-> t[c]]]

\* the caller's table after the groups assigned the columns `written` on `work`
InputAfter(t, work, written) ==
    IF work.obj = "input" THEN [t EXCEPT !.added = @ \o written] ELSE t

calculate_all_indicators(t) ==
    IF t.kind = "none" \/ t.kind = "empty"
    THEN ReturnNone(<<<<"error", "empty input">>>>, t)
    ELSE LET warn == IF t.n < WarnBars THEN <<<<"warning", "few rows">>>> ELSE <<>>
             work == WorkTable(t)
         IN  IF \E i \in 1..Len(RequiredColumns) : RequiredColumns[i] \in Missing(t)
             THEN ReturnNone(warn \o <<<<"error", "calculate">>>>, t)
             ELSE LET st == RunGroups(t, [raised |-> FALSE, columns |-> <<>>,
                                          log |-> warn], 1)
                  IN  IF st.raised
                      THEN ReturnNone(st.log \o <<<<"error", "calculate">>>>,
                                      InputAfter(t, work, st.columns))
                      ELSE [ret |-> "table", columns |-> st.columns,
                            vals |-> [c \in ModelledCols |-> ColumnValue(c, t)],
                            log |-> st.log, base |-> work.base,
                            input |-> InputAfter(t, work, st.columns)]

\* ------------------------------------------------ validate_data ---------
ValidateColumns == <<"open", "high", "low", "close", "volume">>
MinRows == 10          \* fewer rows than this are rejected

RECURSIVE SelectCols(_, _, _)
SelectCols(t, status, i) ==
    IF i > Len(ValidateColumns) THEN <<>>
    ELSE (IF t.bad[ValidateColumns[i]] = status THEN <<ValidateColumns[i]>> ELSE <<>>)
         \o SelectCols(t, status, i + 1)

NoValid == [ok |-> FALSE, msg |-> "pending", cols |-> <<>>]
Invalid(msg, cols) == [ok |-> FALSE, msg |-> msg, cols |-> cols]

\* (faulty variant) the row count is checked before the columns
validate_dataRowsFirst(t) ==
    IF t.kind = "none" THEN Invalid("none", <<>>)
    ELSE IF t.kind = "empty" THEN Invalid("empty", <<>>)
    ELSE IF t.n < MinRows THEN Invalid("few rows", <<>>)
    ELSE IF SelectCols(t, "missing", 1) # <<>>
         THEN Invalid("missing columns", SelectCols(t, "missing", 1))
    ELSE IF SelectCols(t, "allnan", 1) # <<>>
         THEN Invalid("all NaN", <<Head(SelectCols(t, "allnan", 1))>>)
    ELSE [ok |-> TRUE, msg |-> "passed", cols |-> <<>>]
\* the message of a rejection names the missing columns, or the first
\* column that is all NaN
validate_data(t) ==
    IF t.kind = "none" THEN Invalid("none", <<>>)
    ELSE IF t.kind = "empty" THEN Invalid("empty", <<>>)
    ELSE IF SelectCols(t, "missing", 1) # <<>>
         THEN Invalid("missing columns", SelectCols(t, "missing", 1))
    ELSE IF t.n < MinRows THEN Invalid("few rows", <<>>)
    ELSE IF SelectCols(t, "allnan", 1) # <<>>
         THEN Invalid("all NaN", <<Head(SelectCols(t, "allnan", 1))>>)
    ELSE [ok |-> TRUE, msg |-> "passed", cols |-> <<>>]

\* ------------------------------------------------ DataFetcher -----------
DefaultCount == 120    \* default_count of DataFetcher.__init__
NoData == "None"

\* count = count or self.default_count: None and 0 give the default
EffectiveCount(count) == IF count = 0 THEN DefaultCount ELSE count

\* (faulty variant) the frequency is left out of the cache key
CacheKeyNoFrequency(code, count, frequency) == <<code, EffectiveCount(count), "">>
\* f"{code}_{count}_{frequency}", as the three parts it is made of
CacheKey(code, count, frequency) == <<code, EffectiveCount(count), frequency>>

\* what as_api.get_price does in one call: it raises, returns None, an empty
\* table or a table with rows
SourceFailures == {"raise", "None", "empty"}
SourceTables == {"tableA", "tableB"}

NoFetch == [op |-> "none", req |-> <<"", 0, "">>, source |-> "None",
            result |-> NoData, asked |-> FALSE, calls |-> 0]

\* fetch_stock_data: cache is self.data_cache, source what the data source
\* does if it is called; cache, result and whether the source was called
fetch_stock_data(cache, code, count, frequency, source) ==
    LET cache_key == CacheKey(code, count, frequency)
    IN  IF cache_key \in DOMAIN cache
        THEN [cache |-> cache, result |-> cache[cache_key], asked |-> FALSE]
        ELSE IF source \in SourceFailures
        THEN [cache |-> cache, result |-> NoData, asked |-> TRUE]
        ELSE [cache |-> [k \in DOMAIN cache \cup {cache_key} |->
                            IF k = cache_key THEN source ELSE cache[k]],
              result |-> source, asked |-> TRUE]

\* fetch_multiple_stocks from codes[i] on; sources: what the data source
\* does for each code; st holds the cache and the result so far
RECURSIVE fetch_multiple_stocks(_, _, _, _, _, _)
fetch_multiple_stocks(st, codes, count, frequency, sources, i) ==
    IF i > Len(codes) THEN st
    ELSE LET code == codes[i]
             r == fetch_stock_data(st.cache, code, count, frequency, sources[code])
             result == IF r.result # NoData
                       THEN [c \in DOMAIN st.result \cup {code} |->
                                IF c = code THEN r.result ELSE st.result[c]]
                       ELSE st.result
         IN  fetch_multiple_stocks([cache |-> r.cache, result |-> result],
                                   codes, count, frequency, sources, i + 1)

\* the timeframes of fetch_multi_timeframe_data, in the order it asks for them
Timeframes == <<"1d", "1w", "1M">>

\* fetch_multi_timeframe_data from Timeframes[i] on; requests lists the
\* fetch_stock_data calls made
RECURSIVE fetch_multi_timeframe_data(_, _, _, _, _)
fetch_multi_timeframe_data(st, code, count, sources, i) ==
    IF i > Len(Timeframes) THEN st
    ELSE LET freq == Timeframes[i]
             r == fetch_stock_data(st.cache, code, count, freq, sources[freq])
             res == IF r.result # NoData
                    THEN [f \in DOMAIN st.results \cup {freq} |->
                             IF f = freq THEN r.result ELSE st.results[f]]
                    ELSE st.results
         IN  fetch_multi_timeframe_data(
                 [cache |-> r.cache, results |-> res,
                  requests |-> Append(st.requests, <<code, count, freq>>)],
                 code, count, sources, i + 1)

\* ------------------------------------------------ StockAnalyzer ---------
AnalyzerCount == 120   \* count of StockAnalyzer.__init__
ChartPeriods == 60     \* periods asked for a multi-timeframe chart
NoCode == "None"

\* stock_names is the dict {name: code}, its items in insertion order
stock_codes(names) == [i \in 1..Len(names) |-> names[i][2]]

\* {v: k for k, v in stock_names.items()}.get(code, code)
RECURSIVE get_stock_name(_, _, _)
get_stock_name(names, code, i) ==
    IF i = 0 THEN code
    ELSE IF names[i][2] = code THEN names[i][1]
    ELSE get_stock_name(names, code, i - 1)

\* the loop  for code, name in self.stock_names.items(): if name ==
\* stock_name: stock_code = code; break   over the items (key, value) of
\* the dict: code is bound to the key and name to the value
RECURSIVE ResolveCode(_, _, _)
ResolveCode(names, stock_name, i) ==
    IF i > Len(names) THEN NoCode
    ELSE LET code == names[i][1]
             name == names[i][2]
         IN  IF name = stock_name THEN code
             ELSE ResolveCode(names, stock_name, i + 1)

\* _generate_multi_timeframe_chart: sources is what the data source does
\* for each timeframe, chart_ok whether create_multi_timeframe_chart
\* returns; the tables are table tokens here, so the MA20 column written
\* into tables of 20 rows or more is not kept
generate_multi_timeframe_chart(cache, names, charts, stock_name, sources, chart_ok) ==
    LET none == [cache |-> cache, ret |-> "None", stock_name |-> stock_name,
                 stock_code |-> NoCode, requests |-> <<>>]
    IN  IF ~charts THEN none
        ELSE LET stock_code == ResolveCode(names, stock_name, 1)
             IN  IF stock_code = NoCode \/ stock_code = "" THEN none
                 ELSE LET multi == fetch_multi_timeframe_data(
                                       [cache |-> cache, results |-> <<>>,
                                        requests |-> <<>>],
                                       stock_code, ChartPeriods, sources, 1)
                      IN  [cache |-> multi.cache,
                           ret |-> IF DOMAIN multi.results = {} \/ ~chart_ok
                                   THEN "None" ELSE "html",
                           stock_name |-> stock_name, stock_code |-> stock_code,
                           requests |-> multi.requests]

\* calculate_indicators over codes[i..]: st.processed is processed_data_dict,
\* st.success_count the stocks computed in this call
\* (faulty variant) the first stock that fails ends the loop
RECURSIVE calculate_indicatorsAbort(_, _, _, _)
calculate_indicatorsAbort(st, data, codes, i) ==
    IF i > Len(codes) THEN st
    ELSE IF codes[i] \notin DOMAIN data
    THEN calculate_indicatorsAbort(st, data, codes, i + 1)
    ELSE LET code == codes[i]
             df_with_indicators == calculate_all_indicators(data[code])
         IN  IF df_with_indicators.ret # "None"
             THEN calculate_indicatorsAbort(
                      [processed |-> [c \in DOMAIN st.processed \cup {code} |->
                                         IF c = code THEN df_with_indicators.columns
                                         ELSE st.processed[c]],
                       success_count |-> st.success_count + 1],
                      data, codes, i + 1)
             ELSE st
RECURSIVE calculate_indicators(_, _, _, _)
calculate_indicators(st, data, codes, i) ==
    IF i > Len(codes) THEN st
    ELSE IF codes[i] \notin DOMAIN data
    THEN calculate_indicators(st, data, codes, i + 1)
    ELSE LET code == codes[i]
             df_with_indicators == calculate_all_indicators(data[code])
         IN  IF df_with_indicators.ret # "None"
             THEN calculate_indicators(
                      [processed |-> [c \in DOMAIN st.processed \cup {code} |->
                                         IF c = code THEN df_with_indicators.columns
                                         ELSE st.processed[c]],
                       success_count |-> st.success_count + 1],
                      data, codes, i + 1)
             ELSE calculate_indicators(st, data, codes, i + 1)

\* the chart loop of generate_html_report over the analysed stocks
\* codes[i..]: main_ok says for which stocks create_main_analysis_chart
\* returns (when it raises, the stock's multi-timeframe chart is not asked
\* for)
RECURSIVE ReportCharts(_, _, _, _, _, _, _)
ReportCharts(st, names, charts, codes, main_ok, sources, i) ==
    IF i > Len(codes) \/ ~charts THEN st
    ELSE LET stock_name == get_stock_name(names, codes[i], Len(names))
         IN  IF ~main_ok[codes[i]]
             THEN ReportCharts(st, names, charts, codes, main_ok, sources, i + 1)
             ELSE LET c == generate_multi_timeframe_chart(
                               st.cache, names, charts, stock_name,
                               sources[codes[i]], TRUE)
                  IN  ReportCharts(
                          [cache |-> c.cache,
                           charts |-> Append(st.charts,
                                             [stock_name |-> c.stock_name,
                                              stock_code |-> c.stock_code,
                                              requests |-> c.requests,
                                              ret |-> c.ret])],
                          names, charts, codes, main_ok, sources, i + 1)

NoRun == [pc |-> "idle", steps |-> <<>>, returned |-> "pending", html |-> "None",
          charts |-> <<>>, runs |-> 0]

\* ------------------------------------------------ trading signals -------
\* a cell that holds text instead of a number
Text == [k |-> "text", n |-> 0, d |-> 1]

\* one comparison a op b of Python: a TypeError when a cell holds text
Compare(a, op, b) ==
    IF a = Text \/ b = Text THEN "raise"
    ELSE IF (op = ">" /\ Gt(a, b)) \/ (op = "<" /\ Gt(b, a))
            \/ (op = "<=" /\ Le(a, b)) \/ (op = ">=" /\ Le(b, a))
    THEN "true" ELSE "false"

\* c1 and c2 and ..., as well as the chain a < b <= c: the comparisons
\* from conds[i] on, evaluated left to right up to the first false one
RECURSIVE AllOf(_, _)
AllOf(conds, i) ==
    IF i > Len(conds) THEN "true"
    ELSE LET c == Compare(conds[i][1], conds[i][2], conds[i][3])
         IN  IF c = "true" THEN AllOf(conds, i + 1) ELSE c

\* if c1: return m1 / elif c2: return m2 inside try ... except, then
\* return ""
IfElif(c1, m1, c2, m2) ==
    LET r1 == AllOf(c1, 1)
    IN  IF r1 = "raise" THEN ""
        ELSE IF r1 = "true" THEN m1
        ELSE IF AllOf(c2, 1) = "true" THEN m2 ELSE ""

\* a table: n rows, cols the columns it has, each a sequence of n cells
NoSignalTable == [n |-> 0, cols |-> <<>>]
NoSignals == [done |-> FALSE, list |-> <<>>]
HasCols(t, names) == names \subseteq DOMAIN t.cols
Cur(t, c) == t.cols[c][t.n]         \* df[c].iloc[-1]
Prev(t, c) == t.cols[c][t.n - 1]    \* df[c].iloc[-2]

analyze_macd(t) ==
    IF ~HasCols(t, {"MACD"}) \/ t.n < 2 THEN ""
    ELSE IfElif(<<<<Cur(t, "MACD"), ">", Num(0)>>, <<Num(0), ">=", Prev(t, "MACD")>>>>,
                "MACD golden cross",
                <<<<Cur(t, "MACD"), "<", Num(0)>>, <<Num(0), "<=", Prev(t, "MACD")>>>>,
                "MACD dead cross")

analyze_kdj(t) ==
    IF ~HasCols(t, {"K", "D"}) THEN ""
    ELSE IfElif(<<<<Cur(t, "K"), "<", Num(20)>>, <<Cur(t, "D"), "<", Num(20)>>>>,
                "KDJ oversold",
                <<<<Cur(t, "K"), ">", Num(80)>>, <<Cur(t, "D"), ">", Num(80)>>>>,
                "KDJ overbought")

analyze_rsi(t) ==
    IF ~HasCols(t, {"RSI"}) THEN ""
    ELSE IfElif(<<<<Cur(t, "RSI"), "<", Num(20)>>>>, "RSI oversold",
                <<<<Cur(t, "RSI"), ">", Num(80)>>>>, "RSI overbought")

analyze_boll(t) ==
    IF ~HasCols(t, {"close", "BOLL_UP", "BOLL_LOW"}) THEN ""
    ELSE IfElif(<<<<Cur(t, "close"), ">", Cur(t, "BOLL_UP")>>>>, "above upper band",
                <<<<Cur(t, "close"), "<", Cur(t, "BOLL_LOW")>>>>, "below lower band")

analyze_dmi(t) ==
    IF ~HasCols(t, {"PDI", "MDI"}) \/ t.n < 2 THEN ""
    ELSE IfElif(<<<<Cur(t, "PDI"), ">", Cur(t, "MDI")>>,
                  <<Prev(t, "PDI"), "<=", Prev(t, "MDI")>>>>, "DMI golden cross",
                <<<<Cur(t, "PDI"), "<", Cur(t, "MDI")>>,
                  <<Prev(t, "PDI"), ">=", Prev(t, "MDI")>>>>, "DMI dead cross")

analyze_volume(t) ==
    IF ~HasCols(t, {"VR"}) THEN ""
    ELSE IfElif(<<<<Cur(t, "VR"), ">", Num(160)>>>>, "VR above 160",
                <<<<Cur(t, "VR"), "<", Num(40)>>>>, "VR below 40")

analyze_roc(t) ==
    IF ~HasCols(t, {"ROC", "MAROC"}) \/ t.n < 2 THEN ""
    ELSE IfElif(<<<<Cur(t, "ROC"), ">", Cur(t, "MAROC")>>,
                  <<Prev(t, "ROC"), "<=", Prev(t, "MAROC")>>>>, "ROC crosses up",
                <<<<Cur(t, "ROC"), "<", Cur(t, "MAROC")>>,
                  <<Prev(t, "ROC"), ">=", Prev(t, "MAROC")>>>>, "ROC crosses down")

\* signals.append(m) for each message m that is not empty
NonEmpty(msgs) == SelectSeq(msgs, LAMBDA m : m # "")

\* (faulty variant) the volume analysis runs before the DMI analysis
generate_trading_signalsVolumeFirst(t) ==
    IF t.n < 2 THEN <<"insufficient data">>
    ELSE LET sigs == NonEmpty(<<analyze_macd(t), analyze_kdj(t), analyze_rsi(t),
                                analyze_boll(t), analyze_volume(t), analyze_dmi(t),
                                analyze_roc(t)>>)
         IN  IF sigs # <<>> THEN sigs ELSE <<"no clear signal">>
generate_trading_signals(t) ==
    IF t.n < 2 THEN <<"insufficient data">>
    ELSE LET sigs == NonEmpty(<<analyze_macd(t), analyze_kdj(t), analyze_rsi(t),
                                analyze_boll(t), analyze_dmi(t), analyze_volume(t),
                                analyze_roc(t)>>)
         IN  IF sigs # <<>> THEN sigs ELSE <<"no clear signal">>

\* ------------------------------------------------ strategy --------------
BreakoutWindow == 20   \* rows of close looked at by breakout_signal
NoSentiments == [given |-> FALSE, scores |-> <<>>]   \* ai_sentiments=None
NoResults == [done |-> FALSE, entries |-> <<>>]
Tenths(i) == Div(Num(i), Num(10))

\* a table given to select_stocks is its close column; MA5 and MA20 are the
\* columns calculate_all_indicators adds to it
ColMA5(close) == MA(Ints(close), 5)
ColMA20(close) == MA(Ints(close), 20)

\* trend_signal: signal, score and reason
trend_signal(close) ==
    LET ma5 == ColMA5(close)[Len(close)]
        ma20 == ColMA20(close)[Len(close)]
    IN  IF Gt(ma5, ma20) THEN <<"buy", Tenths(8), "MA5 above MA20">>
        ELSE IF Gt(ma20, ma5) THEN <<"sell", Tenths(8), "MA5 below MA20">>
        ELSE <<"hold", Tenths(5), "no cross">>

\* df['close'].iloc[-20:]
RecentCloses(close) ==
    SubSeq(close, IF Len(close) > BreakoutWindow
                  THEN Len(close) - BreakoutWindow + 1 ELSE 1, Len(close))
SeqMax(s) == CHOOSE x \in {s[i] : i \in 1..Len(s)} : \A i \in 1..Len(s) : s[i] <= x
SeqMin(s) == CHOOSE x \in {s[i] : i \in 1..Len(s)} : \A i \in 1..Len(s) : s[i] >= x

breakout_signal(close) ==
    LET recent_high == SeqMax(RecentCloses(close))
        recent_low == SeqMin(RecentCloses(close))
        last == close[Len(close)]
    IN  IF last >= recent_high THEN <<"buy", Tenths(9), "new 20-day high">>
        ELSE IF last <= recent_low THEN <<"sell", Tenths(9), "new 20-day low">>
        ELSE <<"hold", Tenths(5), "inside the range">>

\* ai_sentiment_signal; the sentiment is a number or None
NoScore == [k |-> "none", n |-> 0, d |-> 1]
ai_sentiment_signal(ai_sentiment) ==
    IF ai_sentiment = NoScore THEN <<"hold", Tenths(5), "no AI sentiment">>
    ELSE IF Gt(ai_sentiment, Tenths(3)) THEN <<"buy", Tenths(7), "AI positive">>
    ELSE IF Gt(Tenths(-3), ai_sentiment) THEN <<"sell", Tenths(7), "AI negative">>
    ELSE <<"hold", Tenths(5), "AI neutral">>

\* signals.count(v)
CountOf(sigs, v) == Cardinality({i \in 1..Len(sigs) : sigs[i] = v})

\* (faulty variant) a tie of the votes gives buy
FinalSignalTieBuys(sigs) ==
    LET buy_votes == CountOf(sigs, "buy")
        sell_votes == CountOf(sigs, "sell")
    IN  IF buy_votes >= sell_votes THEN "buy"
        ELSE IF sell_votes > buy_votes THEN "sell"
        ELSE "hold"
\* the vote of select_stocks
FinalSignal(sigs) ==
    LET buy_votes == CountOf(sigs, "buy")
        sell_votes == CountOf(sigs, "sell")
    IN  IF buy_votes > sell_votes THEN "buy"
        ELSE IF sell_votes > buy_votes THEN "sell"
        ELSE "hold"

\* ai_sentiments.get(code) if ai_sentiments else None
SentimentOf(sentiments, code) ==
    IF sentiments.given /\ DOMAIN sentiments.scores # {}
       /\ code \in DOMAIN sentiments.scores
    THEN sentiments.scores[code] ELSE NoScore

\* select_stocks: one entry for each code of the dict; votes is the list
\* signals of the code's turn of the loop
select_stocks(data, sentiments) ==
    [code \in DOMAIN data |->
        LET trend == trend_signal(data[code])
            breakout == breakout_signal(data[code])
            ai == ai_sentiment_signal(SentimentOf(sentiments, code))
            sigs == <<trend[1], breakout[1], ai[1]>>
        IN  [signal |-> FinalSignal(sigs),
             score |-> Div(Add(Add(trend[2], breakout[2]), ai[2]), Num(3)),
             reason |-> <<trend[3], breakout[3], ai[3]>>,
             votes |-> sigs]]

\* ------------------------------------------------ other components ------
ValidIdle == valid = NoValid
FetchIdle == data_cache = <<>> /\ fetched = NoFetch
RunIdle ==
    /\ stock_names = <<<<"China Merchants Bank", "sh600036">>,
                       <<"Ping An Bank", "sz000001">>>>
    /\ interactive_charts = TRUE
    /\ data_dict = <<>> /\ processed_data_dict = <<>> /\ run = NoRun
SignalsIdle == sig_df = NoSignalTable /\ signals = NoSignals
SelectIdle ==
    stock_data_dict = <<>> /\ ai_sentiments = NoSentiments /\ results = NoResults
OthersInit == ValidIdle /\ FetchIdle /\ RunIdle /\ SignalsIdle /\ SelectIdle

\* ------------------------------------------------------------ inputs -----
Vals == 0..MaxVal
SeriesOf(len) == [1..len -> Vals]
Bools(s) == [i \in 1..Len(s) |-> s[i] > 0]
IsConst(s) == \A i, j \in 1..Len(s) : s[i] = s[j]

NoCall == [fn |-> "none", n |-> 0, m |-> 0, kind |-> "none", val |-> <<>>]

\* close prices of n bars in one of five shapes
Shapes == {"flat", "up", "down", "zig", "saw"}
CloseAt(shape, i) ==
    CASE shape = "flat" -> 20
      [] shape = "up" -> 20 + i
      [] shape = "down" -> 60 - i
      [] shape = "zig" -> 20 + (i % 2)
      [] shape = "saw" -> 20 + (i % 3)

Table(n, shape, hs, ls, bad) ==
    [kind |-> IF n = 0 THEN "empty" ELSE "table", n |-> n, bad |-> bad,
     close |-> [i \in 1..n |-> CloseAt(shape, i)],
     open |-> [i \in 1..n |-> CloseAt(shape, IF i = 1 THEN 1 ELSE i - 1)],
     high |-> [i \in 1..n |-> CloseAt(shape, i) + hs],
     low |-> [i \in 1..n |-> CloseAt(shape, i) - ls],
     volume |-> [i \in 1..n |-> 100 * (1 + (i % 3))], added |-> <<>>]

\* all columns good, or one of them absent or holding non-numbers
BadChoices ==
    {AllOk} \cup {[AllOk EXCEPT ![c] = b] :
                    c \in DOMAIN AllOk, b \in {"missing", "nonnum"}}

InitPair ==
    /\ \E len \in 1..MaxPairLen : S1 \in SeriesOf(len) /\ S2 \in SeriesOf(len)
    /\ ret = NoCall /\ df = NoTable /\ out = Pending /\ hist = <<>>
    /\ OthersInit

InitOne ==
    /\ \E len \in 0..MaxLen : S1 \in SeriesOf(len)
    /\ S2 = <<>>
    /\ ret = NoCall /\ df = NoTable /\ out = Pending /\ hist = <<>>
    /\ OthersInit

InitTable ==
    /\ S1 = <<>> /\ S2 = <<>> /\ ret = NoCall /\ out = Pending /\ hist = <<>>
    /\ OthersInit
    /\ \E n \in 0..MaxBars : \E shape \in Shapes : \E hs \in 0..1 : \E ls \in 0..1 :
         \E bad \in BadChoices : df = Table(n, shape, hs, ls, bad)

\* a close that rises by 1 per bar from c0, longer than the other series
Ramp(c0, len) == [i \in 1..len |-> c0 + i - 1]
IsRamp(s) == Len(s) >= 1 /\ \A i \in 2..Len(s) : s[i] = s[i - 1] + 1

InitRamp ==
    /\ \E len \in (MaxLen + 1)..RampBars : \E c0 \in Vals : S1 = Ramp(c0, len)
    /\ S2 = <<>>
    /\ ret = NoCall /\ df = NoTable /\ out = Pending /\ hist = <<>>
    /\ OthersInit

Init == InitPair \/ InitOne \/ InitTable \/ InitRamp

\* the tables of a run of several calls
RepeatTables ==
    {NoTable} \cup
    {Table(n, shape, 0, 1, bad) :
        n \in {2, MaxBars}, shape \in {"up", "zig"},
        bad \in {AllOk, [AllOk EXCEPT !["high"] = "nonnum"]}}

\* a run is one call: of a library function on S1 (and S2), or of the
\* orchestrator on df
Return(fn, n, m, kind, val) ==
    /\ ret = NoCall /\ df = NoTable /\ out = Pending
    /\ Len(S1) <= MaxLen \/ fn = "CROSS_MA"
    /\ ret' = [fn |-> fn, n |-> n, m |-> m, kind |-> kind, val |-> val]
    /\ UNCHANGED <<S1, S2, df, out, hist, others>>

Windows == 1..MaxN

DoMA == \E N \in Windows : Return("MA", N, 0, "series", <<MA(Ints(S1), N)>>)
DoSUM == \E N \in Windows : Return("SUM", N, 0, "series", <<SUM(Ints(S1), N)>>)
DoHHV == \E N \in Windows : Return("HHV", N, 0, "series", <<HHV(Ints(S1), N)>>)
DoLLV == \E N \in Windows : Return("LLV", N, 0, "series", <<LLV(Ints(S1), N)>>)
DoSTD == \E N \in Windows : Return("STD", N, 0, "series", <<STD(Ints(S1), N)>>)
DoREF == \E N \in Windows : Return("REF", N, 0, "series", <<REF(Ints(S1), N)>>)
DoDIFF == \E N \in Windows : Return("DIFF", N, 0, "series", <<DIFF(Ints(S1), N)>>)
DoEMA == \E N \in Windows : Return("EMA", N, 0, "series", <<EMA(Ints(S1), N)>>)
DoAVEDEV ==
    \E N \in Windows : Return("AVEDEV", N, 0, "series", <<AVEDEV(Ints(S1), N)>>)

DoSMA ==
    \E N \in Windows : \E M \in 1..N :
        Return("SMA", N, M, "series", <<SMA(Ints(S1), N, M)>>)

DoSLOPE ==
    \E N \in Windows :
        IF SlopeRaises(S1, N) THEN Return("SLOPE", N, 0, "raise", <<>>)
        ELSE Return("SLOPE", N, 0, "scalar", <<SLOPE(Ints(S1), N)>>)

DoFORCAST ==
    \E N \in Windows :
        IF SlopeRaises(S1, N) THEN Return("FORCAST", N, 0, "raise", <<>>)
        ELSE Return("FORCAST", N, 0, "scalar", <<FORCAST(Ints(S1), N)>>)

DoRET ==
    \E N \in Windows :
        IF RetRaises(S1, N) THEN Return("RET", N, 0, "raise", <<>>)
        ELSE Return("RET", N, 0, "scalar", <<RET(Ints(S1), N)>>)

DoABS == Return("ABS", 0, 0, "series", <<ABS(Ints(S1))>>)
DoRD == Return("RD", 0, 0, "series", <<RD(Ints(S1))>>)

DoCOUNT == \E N \in Windows : Return("COUNT", N, 0, "series", <<COUNT(Bools(S1), N)>>)
DoEVERY == \E N \in Windows : Return("EVERY", N, 0, "series", <<EVERY(Bools(S1), N)>>)
DoEXIST == \E N \in Windows : Return("EXIST", N, 0, "series", <<EXIST(Bools(S1), N)>>)

DoLAST ==
    \E A \in 0..MaxN : \E B \in 0..MaxN :
        Return("LAST", A, B, "scalar", <<LAST(Bools(S1), A, B)>>)

DoBARSLAST == Return("BARSLAST", 0, 0, "scalar", <<BARSLAST(Bools(S1))>>)

\* the two-series functions need series of one length
DoCROSS ==
    /\ Len(S1) = Len(S2)
    /\ Return("CROSS", 0, 0, "series", <<CROSS(Ints(S1), Ints(S2))>>)

DoMAX ==
    /\ Len(S1) = Len(S2)
    /\ Return("MAX", 0, 0, "series", <<MAX(Ints(S1), Ints(S2))>>)

DoMIN ==
    /\ Len(S1) = Len(S2)
    /\ Return("MIN", 0, 0, "series", <<MIN(Ints(S1), Ints(S2))>>)

\* MACD with its default periods; the exact rationals of a non-constant
\* series outgrow 32-bit integers after three bars
DoMACD ==
    /\ Len(S1) <= 3 \/ IsConst(S1)
    /\ Return("MACD", 0, 0, "series", MACD(Ints(S1), 12, 26, 9))

DoRSI == \E N \in Windows : Return("RSI", N, 0, "series", <<RSI(Ints(S1), N)>>)

\* a (CLOSE, HIGH, LOW) triple from the two series: S1 is the close, S2 the
\* length of the upper shadow, the lower shadow is half as long; a bar with
\* S2 = 0 has high = low = close
HighOf(c, s) == [i \in 1..Len(c) |-> Num(c[i] + s[i])]
LowOf(c, s) == [i \in 1..Len(c) |-> Num(c[i] - (s[i] \div 2))]

KDJ_M1 == 3            \* the default smoothing parameters of KDJ
KDJ_M2 == 3

DoKDJ ==
    /\ Len(S1) = Len(S2)
    /\ \E N \in Windows :
         Return("KDJ", N, 0, "series",
                KDJ(Ints(S1), HighOf(S1, S2), LowOf(S1, S2), N, KDJ_M1, KDJ_M2))

DoWR ==
    /\ Len(S1) = Len(S2)
    /\ \E N \in Windows : \E N1 \in Windows :
         Return("WR", N, N1, "series",
                WR(Ints(S1), HighOf(S1, S2), LowOf(S1, S2), N, N1))

DoCCI ==
    /\ Len(S1) = Len(S2)
    /\ \E N \in Windows :
         Return("CCI", N, 0, "series",
                <<CCI(Ints(S1), HighOf(S1, S2), LowOf(S1, S2), N)>>)

DoATR ==
    /\ Len(S1) = Len(S2)
    /\ \E N \in Windows :
         Return("ATR", N, 0, "series",
                <<ATR(Ints(S1), HighOf(S1, S2), LowOf(S1, S2), N)>>)

\* VR on the close S1 and the volume S2
DoVR ==
    /\ Len(S1) = Len(S2)
    /\ \E M1 \in Windows :
         Return("VR", M1, 0, "series", <<VR(Ints(S1), Ints(S2), M1)>>)

\* the cross of the 5-bar average of a steadily rising close over its
\* 20-bar average
DoCrossMA ==
    /\ IsRamp(S1) /\ S2 = <<>>
    /\ Return("CROSS_MA", 5, 20, "series",
              <<CROSS(MA(Ints(S1), 5), MA(Ints(S1), 20))>>)

\* OBV on the close S1 and the volume S2; the caller holds the same two
\* arrays afterwards
DoOBV ==
    /\ Len(S1) = Len(S2) /\ Len(S1) >= 1
    /\ ret = NoCall /\ df = NoTable /\ out = Pending
    /\ LET r == OBV(Ints(S1), Ints(S2))
       IN  /\ ret' = [fn |-> "OBV", n |-> 0, m |-> 0, kind |-> "series",
                      val |-> <<r.ret>>]
           /\ S1' = [i \in 1..Len(S1) |-> r.CLOSE[i].n]
           /\ S2' = [i \in 1..Len(S2) |-> r.VOLUME[i].n]
    /\ UNCHANGED <<df, out, hist, others>>

\* the first call on the instance: the caller hands in df and holds the
\* same table object afterwards
CalculateAllIndicators ==
    /\ out = Pending /\ ret = NoCall
    /\ out' = calculate_all_indicators(df)
    /\ df' = out'.input
    /\ hist' = Append(hist, [t |-> df, out |-> out'])
    /\ UNCHANGED <<S1, S2, ret, others>>

\* a further call on the same instance, on the same table or on another one
CallAgain ==
    /\ out # Pending /\ Len(hist) < MaxCalls
    /\ \E t \in RepeatTables :
         /\ out' = calculate_all_indicators(t)
         /\ df' = out'.input
         /\ hist' = Append(hist, [t |-> t, out |-> out'])
    /\ UNCHANGED <<S1, S2, ret, others>>

Next ==
    \/ CalculateAllIndicators
    \/ DoMA \/ DoSUM \/ DoHHV \/ DoLLV \/ DoSTD \/ DoREF \/ DoDIFF
    \/ DoEMA \/ DoSMA \/ DoAVEDEV \/ DoSLOPE \/ DoFORCAST \/ DoRET
    \/ DoABS \/ DoRD \/ DoCOUNT \/ DoEVERY \/ DoEXIST \/ DoLAST
    \/ DoBARSLAST \/ DoCROSS \/ DoMAX \/ DoMIN \/ DoMACD \/ DoRSI
    \/ DoKDJ \/ DoWR \/ DoCCI \/ DoATR \/ DoVR \/ DoCrossMA \/ DoOBV

Spec == Init /\ [][Next]_vars

\* validate_data and calculate_all_indicators on one table, in either order
ValidateTables ==
    {NoTable} \cup
    {Table(n, "saw", 1, 1, bad) :
        n \in {0, 1, MinRows - 1, MinRows, MaxBars},
        bad \in [DOMAIN AllOk -> {"ok", "missing", "allnan", "nonnum"}]}

ValidateData ==
    /\ valid = NoValid /\ ret = NoCall
    /\ valid' = validate_data(df)
    /\ UNCHANGED <<S1, S2, ret, df, out, hist, fetchVars, runVars, sigVars, selVars>>

InitValidate ==
    /\ S1 = <<>> /\ S2 = <<>> /\ ret = NoCall /\ out = Pending /\ hist = <<>>
    /\ OthersInit
    /\ df \in ValidateTables

NextValidate == ValidateData \/ CalculateAllIndicators

SpecValidate == InitValidate /\ [][NextValidate]_vars

\* no call of the indicator library or of the orchestrator is under way
CoreIdle ==
    /\ S1 = <<>> /\ S2 = <<>> /\ ret = NoCall /\ df = NoTable /\ out = Pending
    /\ hist = <<>>

\* ---- a DataFetcher and the calls made on it
Codes == {"sh600036", "sz000001"}
Counts == {0, DefaultCount, 60}
Frequencies == {"1d", "1w"}

FetchStockData ==
    /\ fetched.calls < MaxFetches
    /\ \E code \in Codes : \E count \in Counts : \E frequency \in Frequencies :
       \E source \in SourceFailures \cup SourceTables :
         LET r == fetch_stock_data(data_cache, code, count, frequency, source)
         IN  /\ data_cache' = r.cache
             /\ fetched' = [op |-> "fetch", req |-> <<code, count, frequency>>,
                            source |-> source, result |-> r.result,
                            asked |-> r.asked, calls |-> fetched.calls + 1]
    /\ UNCHANGED <<core, validVars, sigVars, selVars, runVars>>

ClearCache ==
    /\ fetched.calls < MaxFetches
    /\ data_cache' = <<>>
    /\ fetched' = [NoFetch EXCEPT !.op = "clear", !.calls = fetched.calls + 1]
    /\ UNCHANGED <<core, validVars, sigVars, selVars, runVars>>

InitFetch == CoreIdle /\ OthersInit

NextFetch == FetchStockData \/ ClearCache

SpecFetch == InitFetch /\ [][NextFetch]_vars

\* ---- a StockAnalyzer and its run_analysis
\* the table a table token of the data source stands for: one that
\* calculate_all_indicators computes and one it rejects (no close column)
TableOf(token) ==
    IF token = "tableA" THEN Table(3, "saw", 1, 1, AllOk)
    ELSE Table(3, "saw", 1, 1, [AllOk EXCEPT !["close"] = "missing"])

\* the pools: names that differ from the codes, and a stock entered under
\* its code
Pools == {<<<<"China Merchants Bank", "sh600036">>, <<"Ping An Bank", "sz000001">>>>,
          <<<<"sh600036", "sh600036">>, <<"Ping An Bank", "sz000001">>>>}
ChartSources == {"raise", "tableA"}

Step(name, ok) == [step |-> name, ok |-> ok]

\* step 1 of run_analysis: fetch_data
RunFetchData ==
    /\ run.pc = "idle" /\ run.runs < MaxRuns
    /\ \E sources \in [Codes -> SourceFailures \cup SourceTables] :
         LET r == fetch_multiple_stocks([cache |-> data_cache, result |-> <<>>],
                                        stock_codes(stock_names), AnalyzerCount,
                                        "1d", sources, 1)
             ok == DOMAIN r.result # {}
         IN  /\ data_cache' = r.cache
             /\ data_dict' = r.result
             /\ run' = [pc |-> IF ok THEN "calculate" ELSE "idle",
                        steps |-> <<Step("fetch", ok)>>,
                        returned |-> IF ok THEN "pending" ELSE "None",
                        html |-> "None", charts |-> <<>>, runs |-> run.runs + 1]
    /\ UNCHANGED <<core, validVars, sigVars, selVars, fetched, stock_names, interactive_charts,
                   processed_data_dict>>

\* step 2: calculate_indicators
RunCalculateIndicators ==
    /\ run.pc = "calculate"
    /\ LET r == calculate_indicators(
                    [processed |-> processed_data_dict, success_count |-> 0],
                    [c \in DOMAIN data_dict |-> TableOf(data_dict[c])],
                    stock_codes(stock_names), 1)
           ok == r.success_count > 0
       IN  /\ processed_data_dict' = r.processed
           /\ run' = [run EXCEPT !.pc = IF ok THEN "report" ELSE "idle",
                                 !.steps = Append(@, Step("calculate", ok)),
                                 !.returned = IF ok THEN "pending" ELSE "None"]
    /\ UNCHANGED <<core, validVars, sigVars, selVars, fetchVars, stock_names, interactive_charts,
                   data_dict>>

\* step 3: generate_html_report, which raises before the charts or after
\* them, or returns what the report generator gave it
RunGenerateReport ==
    /\ run.pc = "report"
    /\ \E outcome \in {"raise early", "raise late", "None", "html"} :
       \E main_ok \in [Codes -> BOOLEAN] :
       \E sources \in [Codes -> [{"1d", "1w", "1M"} -> ChartSources]] :
         LET codes == SelectSeq(stock_codes(stock_names),
                                LAMBDA c : c \in DOMAIN processed_data_dict)
             start == [cache |-> data_cache, charts |-> <<>>]
             r == IF outcome = "raise early" THEN start
                  ELSE ReportCharts(start, stock_names, interactive_charts,
                                    codes, main_ok, sources, 1)
             ok == outcome \in {"None", "html"}
         IN  /\ data_cache' = r.cache
             /\ run' = [run EXCEPT !.pc = IF ok THEN "save" ELSE "idle",
                                   !.steps = Append(@, Step("report", ok)),
                                   !.returned = IF ok THEN "pending" ELSE "None",
                                   !.html = IF ok THEN outcome ELSE "None",
                                   !.charts = r.charts]
    /\ UNCHANGED <<core, validVars, sigVars, selVars, fetched, stock_names, interactive_charts,
                   data_dict, processed_data_dict>>

\* step 4: _save_report; writing fails when the file cannot be written or
\* when there is no text to write
RunSaveReport ==
    /\ run.pc = "save"
    /\ \E writable \in BOOLEAN :
         LET ok == writable /\ run.html = "html"
         IN  run' = [run EXCEPT !.pc = "idle",
                               !.steps = Append(@, Step("save", ok)),
                               !.returned = IF ok THEN "output_path" ELSE "None"]
    /\ UNCHANGED <<core, validVars, sigVars, selVars, fetchVars, stock_names, interactive_charts,
                   data_dict, processed_data_dict>>

InitRun ==
    /\ CoreIdle /\ ValidIdle /\ FetchIdle /\ SignalsIdle /\ SelectIdle
    /\ stock_names \in Pools /\ interactive_charts \in BOOLEAN
    /\ data_dict = <<>> /\ processed_data_dict = <<>> /\ run = NoRun

NextRun == RunFetchData \/ RunCalculateIndicators \/ RunGenerateReport \/ RunSaveReport

SpecRun == InitRun /\ [][NextRun]_vars

\* ---- tables for generate_trading_signals: for each analysis one of four
\* cases of its columns, given as the cells <<column, iloc[-2], iloc[-1]>>
Cases ==
    [MACD |-> <<{}, {<<"MACD", Num(0), Num(1)>>}, {<<"MACD", Num(0), Num(-1)>>},
                {<<"MACD", Text, Num(1)>>}>>,
     KDJ |-> <<{<<"K", Num(10), Num(10)>>},
               {<<"K", Num(50), Num(10)>>, <<"D", Num(50), Num(10)>>},
               {<<"K", Num(50), Num(90)>>, <<"D", Num(50), Num(90)>>},
               {<<"K", Num(50), Num(10)>>, <<"D", Num(50), Num(90)>>}>>,
     RSI |-> <<{}, {<<"RSI", Num(50), Num(10)>>}, {<<"RSI", Num(50), Num(90)>>},
               {<<"RSI", Num(10), Num(20)>>}>>,
     BOLL |-> <<{<<"close", Num(9), Num(10)>>, <<"BOLL_LOW", Num(1), Num(1)>>},
                {<<"close", Num(3), Num(10)>>, <<"BOLL_UP", Num(5), Num(5)>>,
                 <<"BOLL_LOW", Num(1), Num(1)>>},
                {<<"close", Num(3), Num(0)>>, <<"BOLL_UP", Num(5), Num(5)>>,
                 <<"BOLL_LOW", Num(1), Num(1)>>},
                {<<"close", Num(3), Num(10)>>, <<"BOLL_UP", NaN, NaN>>,
                 <<"BOLL_LOW", NaN, NaN>>}>>,
     DMI |-> <<{}, {<<"PDI", Num(1), Num(2)>>, <<"MDI", Num(1), Num(1)>>},
               {<<"PDI", Num(1), Num(1)>>, <<"MDI", Num(1), Num(2)>>},
               {<<"PDI", Num(2), Num(1)>>, <<"MDI", Num(1), Num(1)>>}>>,
     VR |-> <<{}, {<<"VR", Num(100), Num(200)>>}, {<<"VR", Num(100), Num(10)>>},
              {<<"VR", Num(100), Text>>}>>,
     ROC |-> <<{}, {<<"ROC", Num(0), Num(2)>>, <<"MAROC", Num(1), Num(1)>>},
               {<<"ROC", Num(2), Num(0)>>, <<"MAROC", Num(1), Num(1)>>},
               {<<"ROC", NaN, Num(2)>>, <<"MAROC", NaN, NaN>>}>>]

\* the n rows of a column whose last two cells are prev and cur; the rows
\* before them hold first
ColumnCells(n, first, prev, cur) ==
    [i \in 1..n |-> IF i = n THEN cur ELSE IF i = n - 1 THEN prev ELSE first]

SignalTable(n, choice) ==
    LET cells == UNION {Cases[a][choice[a]] : a \in DOMAIN Cases}
    IN  [n |-> n,
         cols |-> [c \in {x[1] : x \in cells} |->
                      LET x == CHOOSE x \in cells : x[1] = c
                      IN  ColumnCells(n, Num(50), x[2], x[3])]]

GenerateTradingSignals ==
    /\ ~signals.done /\ sig_df # NoSignalTable
    /\ signals' = [done |-> TRUE, list |-> generate_trading_signals(sig_df)]
    /\ UNCHANGED <<core, validVars, fetchVars, runVars, selVars, sig_df>>

InitSignals ==
    /\ CoreIdle /\ ValidIdle /\ FetchIdle /\ RunIdle /\ SelectIdle
    /\ \E n \in 0..SigRows : \E choice \in [DOMAIN Cases -> 1..4] :
          sig_df = SignalTable(n, choice)
    /\ signals = NoSignals

NextSignals == GenerateTradingSignals

SpecSignals == InitSignals /\ [][NextSignals]_vars

\* ---- the stocks given to select_stocks: short tables, whose MA20 is NaN,
\* and tables of 21 rows: a first row outside the breakout window, 15 flat
\* rows, 4 rows at mid and the last row
LongCloses(first, mid, last) ==
    [i \in 1..(BreakoutWindow + 1) |->
        IF i = 1 THEN first
        ELSE IF i <= BreakoutWindow - 4 THEN 2
        ELSE IF i <= BreakoutWindow THEN mid ELSE last]
StrategyCloses ==
    {<<1>>, <<0, 2, 1>>, <<0, 1, 2>>, <<2, 1, 0>>}
    \cup {LongCloses(9, mid, last) : mid \in {0, 2, 4}, last \in {0, 1, 3, 5}}
Sentiments == {Tenths(i) : i \in {-4, -3, 3, 4}}
CodeSets == {cs \in SUBSET Codes : Cardinality(cs) <= MaxStocks}

SelectStocks ==
    /\ ~results.done
    /\ results' = [done |-> TRUE,
                   entries |-> select_stocks(stock_data_dict, ai_sentiments)]
    /\ UNCHANGED <<core, validVars, fetchVars, runVars, sigVars,
                   stock_data_dict, ai_sentiments>>

InitSelect ==
    /\ CoreIdle /\ ValidIdle /\ FetchIdle /\ RunIdle /\ SignalsIdle
    /\ \E cs \in CodeSets : stock_data_dict \in [cs -> StrategyCloses]
    /\ \/ ai_sentiments = NoSentiments
       \/ \E cs \in SUBSET Codes : \E sc \in [cs -> Sentiments] :
             ai_sentiments = [given |-> TRUE, scores |-> sc]
    /\ results = NoResults

NextSelect == SelectStocks

SpecSelect == InitSelect /\ [][NextSelect]_vars

\* repeated calls on one instance
InitRepeat ==
    /\ S1 = <<>> /\ S2 = <<>> /\ ret = NoCall /\ out = Pending /\ hist = <<>>
    /\ OthersInit
    /\ df \in RepeatTables

NextRepeat == CalculateAllIndicators \/ CallAgain

SpecRepeat == InitRepeat /\ [][NextRepeat]_vars

\* ============================================================ claims =====
Called(fn) == ret.fn = fn /\ ret.kind # "none"
Done == out.ret # "pending"

\* ---- C1 (as claimed): for NaN-free S1, S2 and every index i >= 1,
\* CROSS(S1,S2)[i] is true iff S1[i-1] <= S2[i-1] and S1[i] > S2[i]
C1_CrossIsUpwardOnly ==
    Called("CROSS") =>
        \A p \in 2..Len(S1) :
            ret.val[1][p] <=> (S1[p - 1] <= S2[p - 1] /\ S1[p] > S2[p])

\* ---- C2 (as claimed): CROSS(S1,S2)[i] and CROSS(S2,S1)[i] are never both
\* true at one index
C2_CrossMutuallyExclusive ==
    Called("CROSS") =>
        \A p \in 1..Len(S1) :
            ~(ret.val[1][p] /\ CROSS(Ints(S2), Ints(S1))[p])

\* ---- C3
RaisingGroups(t) == {gi \in 1..Len(Groups) : GroupRaises(t, Groups[gi])}
PartialFailure(t) ==
    /\ t.kind = "table" /\ Missing(t) = {}
    /\ RaisingGroups(t) # {} /\ RaisingGroups(t) # 1..Len(Groups)
Range(seq) == {seq[i] : i \in 1..Len(seq)}

\* C3 (as claimed): when one indicator raises and others succeed, the result
\* is not None but a table that holds the columns of every indicator that
\* did not fail
C3_PartialFailureKeepsOthers ==
    (Done /\ PartialFailure(df)) =>
        /\ out.ret = "table"
        /\ \A i \in 1..Len(Calls) :
              Calls[i].uses \cap NonNumeric(df) = {} =>
                  Range(Calls[i].cols) \subseteq Range(out.columns)

\* C3 (amended): when an indicator raises, the error of its group and the
\* overall error are logged and None is returned for the whole bundle, with
\* no column of any other indicator
C3_FailureReturnsNone ==
    (Done /\ PartialFailure(df)) =>
        LET first == CHOOSE gi \in RaisingGroups(df) :
                        \A h \in RaisingGroups(df) : gi <= h
        IN  /\ out.ret = "None"
            /\ out.columns = <<>>
            /\ out.log[Len(out.log)] = <<"error", "calculate">>
            /\ out.log[Len(out.log) - 1] = <<"error", Groups[first]>>

C3_Witness ==
    /\ Done /\ df.kind = "table" /\ NonNumeric(df) = {"volume"}
    /\ out.ret = "None"
    /\ <<"error", "volume">> \in Range(out.log)

\* ---- C4 (as claimed): every indicator column is NaN wherever the
\* indicator is undefined; the RSI column is NaN during RSI warm-up and on a
\* constant close
C4_NaNIsExposed ==
    out.ret = "table" =>
        /\ \A p \in 1..df.n :
              IsNaN(RSI(Ints(df.close), 14)[p]) => IsNaN(out.vals["RSI"][p])
        /\ \A p \in 1..df.n : p < 5 => IsNaN(out.vals["MA5"][p])

\* C4 (amended): the RSI column is never NaN: it holds 50 wherever
\* RSI(close, 14) is NaN, which is the first 14 bars and every bar of a
\* constant close; the MA columns keep the NaN of their warm-up
C4_RsiNaNBecomes50 ==
    out.ret = "table" =>
        /\ \A p \in 1..df.n : ~IsNaN(out.vals["RSI"][p])
        /\ \A p \in 1..df.n : p <= 14 => out.vals["RSI"][p] = Num(50)
        /\ IsConst(df.close) => \A p \in 1..df.n : out.vals["RSI"][p] = Num(50)
        /\ \A p \in 1..df.n :
              /\ IsNaN(out.vals["MA5"][p]) <=> p < 5
              /\ IsNaN(out.vals["MA10"][p]) <=> p < 10
              /\ IsNaN(out.vals["MA20"][p]) <=> p < 20
              /\ IsNaN(out.vals["MA60"][p]) <=> p < 60

C4_Witness ==
    /\ out.ret = "table" /\ df.n >= 16 /\ IsConst(df.close)
    /\ out.vals["RSI"][16] = Num(50)
    /\ IsNaN(RSI(Ints(df.close), 14)[16])

\* ---- C5
InvalidInput(t) == t.kind = "table" /\ \E c \in DOMAIN t.bad : t.bad[c] # "ok"

\* C5 (as claimed): a table that lacks a required column or holds
\* non-numbers makes the call raise to its caller; it never returns
C5_InvalidInputRaises ==
    (Done /\ InvalidInput(df)) => out.ret = "raise"

\* C5 (amended): for such a table the call never raises and never returns
\* a table: the error is caught and logged and None is returned
C5_InvalidInputReturnsNone ==
    (Done /\ InvalidInput(df)) =>
        /\ out.ret = "None"
        /\ out.log # <<>>
        /\ out.log[Len(out.log)] = <<"error", "calculate">>

C5_Witness ==
    /\ Done /\ df.kind = "table" /\ df.bad["close"] = "missing"
    /\ out.ret = "None"

\* ---- C6 (as claimed): every column equals its indicator called with the
\* default periods; the RSI column equals RSI(close) with N = 24
C6_RsiDefaultPeriod ==
    out.ret = "table" =>
        /\ out.vals["RSI"] = RSI(Ints(df.close), 24)
        /\ \A i \in 1..Len(Calls) : Calls[i].ind # "MA" => Calls[i].over = <<>>

\* C6 (amended): the indicators are called with their default periods except
\* RSI, which is called with N = 14 and has its NaN replaced by 50: the RSI
\* column is RSI(close, 14) where that is a number and 50 elsewhere, so on a
\* rising close it is 100 and on a falling close 0 from index 14 on
C6_RsiPeriod14 ==
    out.ret = "table" =>
        /\ \A p \in 1..df.n :
              LET r == RSI(Ints(df.close), 14)[p]
              IN  out.vals["RSI"][p] = IF IsNaN(r) THEN Num(50) ELSE r
        /\ \A p \in 15..df.n :
              /\ (\A q \in 2..df.n : df.close[q] > df.close[q - 1])
                    => out.vals["RSI"][p] = Num(100)
              /\ (\A q \in 2..df.n : df.close[q] < df.close[q - 1])
                    => out.vals["RSI"][p] = Num(0)
        /\ \A i \in 1..Len(Calls) :
              Calls[i].ind \notin {"MA", "RSI"} => Calls[i].over = <<>>

C6_Witness ==
    /\ out.ret = "table" /\ df.n >= 15
    /\ out.vals["RSI"][15] = Num(100)
    /\ IsNaN(RSI(Ints(df.close), 24)[15])

\* ---- integer statistics of the window of N values ending at position p
RECURSIVE WinSum(_, _, _)
WinSum(s, N, p) == IF N = 0 THEN 0 ELSE s[p] + WinSum(s, N - 1, p - 1)

RECURSIVE WinSumSq(_, _, _)
WinSumSq(s, N, p) == IF N = 0 THEN 0 ELSE s[p] * s[p] + WinSumSq(s, N - 1, p - 1)

WinSet(s, N, p) == {s[j] : j \in (p - N + 1)..p}
WinMax(s, N, p) == CHOOSE x \in WinSet(s, N, p) : \A y \in WinSet(s, N, p) : y <= x
WinMin(s, N, p) == CHOOSE x \in WinSet(s, N, p) : \A y \in WinSet(s, N, p) : x <= y

\* ---- C7: SMA(S,N,M) has length n, is NaN before index N-1, is the plain
\* mean of the last N values at the seed indices N-1 and N, and for i > N is
\* (M*S[i] + (N-M)*SMA[i-1]) / N on the previous smoothed value
C7_SmaRecurrence ==
    Called("SMA") =>
        LET N == ret.n
            M == ret.m
            K == ret.val[1]
        IN  /\ Len(K) = Len(S1)
            /\ \A p \in 1..Len(S1) :
                  /\ p < N => IsNaN(K[p])
                  /\ (p = N \/ p = N + 1) => K[p] = Rat(WinSum(S1, N, p), N)
                  /\ p > N + 1 =>
                        /\ IsNum(K[p - 1])
                        /\ K[p] = Rat(M * S1[p] * K[p - 1].d + (N - M) * K[p - 1].n,
                                      N * K[p - 1].d)

\* a call whose last value depends on the previous smoothed value: it is
\* neither the rolling mean nor what the previous raw value would give
C7_Witness ==
    /\ Called("SMA") /\ ret.n = 2 /\ ret.m = 1 /\ Len(S1) >= 5
    /\ ret.val[1][5] # MA(Ints(S1), 2)[5]
    /\ ret.val[1][5] # Rat(S1[5] + S1[4], 2)
    /\ ret.val[1][4] # MA(Ints(S1), 2)[4]

\* ---- C8: EMA(S,N)[0] = S[0] and EMA[i] = a*S[i] + (1-a)*EMA[i-1] with
\* a = 2/(N+1); on a constant series every EMA value is that constant and
\* MACD's DIF, DEA and MACD are 0 everywhere
C8_EmaRecurrence ==
    /\ Called("EMA") =>
          LET N == ret.n
              E == ret.val[1]
          IN  /\ Len(E) = Len(S1)
              /\ Len(S1) >= 1 => E[1] = Num(S1[1])
              /\ \A p \in 2..Len(S1) :
                    /\ IsNum(E[p - 1])
                    /\ E[p] = Rat(2 * S1[p] * E[p - 1].d + (N - 1) * E[p - 1].n,
                                  (N + 1) * E[p - 1].d)
              /\ IsConst(S1) => \A p \in 1..Len(S1) : E[p] = Num(S1[1])
    /\ (Called("MACD") /\ IsConst(S1)) =>
          \A c \in 1..3 : \A p \in 1..Len(S1) : ret.val[c][p] = Num(0)

C8_Witness ==
    /\ Called("EMA") /\ ret.n = 3 /\ Len(S1) >= 4
    /\ S1[1] # S1[2] /\ S1[3] # S1[4]
    /\ ret.val[1][4] # Num(S1[4])

\* ---- C9: MA, SUM, HHV, LLV and STD with window N are NaN at exactly the
\* indices 0..N-2 and from index N-1 on are the mean, sum, max, min and
\* population standard deviation of the last N values
SquareOf(v) == IF v.k = "sqrt" THEN Rat(v.n, v.d) ELSE Mul(v, v)

C9_RollingStatistics ==
    \A p \in 1..Len(S1) :
        LET N == ret.n
            v == ret.val[1][p]
        IN  /\ (Called("MA") \/ Called("SUM") \/ Called("HHV") \/ Called("LLV")
                   \/ Called("STD")) => (IsNaN(v) <=> p < N)
            /\ (Called("MA") /\ p >= N) => v = Rat(WinSum(S1, N, p), N)
            /\ (Called("SUM") /\ p >= N) => v = Num(WinSum(S1, N, p))
            /\ (Called("HHV") /\ p >= N) => v = Num(WinMax(S1, N, p))
            /\ (Called("LLV") /\ p >= N) => v = Num(WinMin(S1, N, p))
            /\ (Called("STD") /\ p >= N) =>
                  /\ v.n >= 0
                  /\ SquareOf(v) = Rat(N * WinSumSq(S1, N, p)
                                         - WinSum(S1, N, p) * WinSum(S1, N, p), N * N)

C9_Witness ==
    /\ Called("STD") /\ ret.n = 2 /\ Len(S1) >= 3
    /\ IsNaN(ret.val[1][1])
    /\ ret.val[1][2] = Rat(1, 2)
    /\ ret.val[1][3] = Num(1)

\* ---- C10
ScalarFns == {"RET", "SLOPE", "FORCAST", "LAST", "BARSLAST"}

\* C10 (as claimed): every level 0, 1 and 2 function, SLOPE, FORCAST, LAST
\* and BARSLAST included, returns series of length exactly n
C10_EveryOutputHasLengthN ==
    ret.kind # "none" =>
        /\ ret.kind = "series"
        /\ \A c \in 1..Len(ret.val) : Len(ret.val[c]) = Len(S1)

\* C10 (amended): every function that returns series returns series of
\* length exactly n; RET, SLOPE, FORCAST, LAST and BARSLAST return one
\* scalar (or raise), not a series
C10_SeriesOutputsHaveLengthN ==
    ret.kind # "none" =>
        /\ ret.kind = "series" <=> ret.fn \notin ScalarFns
        /\ ret.kind = "series" =>
              /\ Len(ret.val) >= 1
              /\ \A c \in 1..Len(ret.val) : Len(ret.val[c]) = Len(S1)
        /\ ret.kind = "scalar" => Len(ret.val) = 1

C10_Witness ==
    /\ Called("BARSLAST") /\ Len(S1) >= 3 /\ ret.kind = "scalar"
    /\ ret.val = <<1>>

\* ---- C11 (as claimed): for the three series MACD returns and every index
\* i, MACD[i] = 2 * (DIF[i] - DEA[i]) exactly
MacdGap(p) ==
    ABS1(Sub(ret.val[3][p], Mul(Sub(ret.val[1][p], ret.val[2][p]), Num(2))))

C11_MacdIdentityExact ==
    Called("MACD") => \A p \in 1..Len(S1) : EqF(MacdGap(p), Num(0))

\* ---- C11 (amended): each of DIF, DEA and MACD is rounded to 3 decimals on
\* its own, so MACD[i] differs from 2 * (DIF[i] - DEA[i]) by at most 0.002
C11_MacdIdentityRounded ==
    Called("MACD") => \A p \in 1..Len(S1) : Le(MacdGap(p), Rat(2, 1000))

C11_Witness ==
    /\ Called("MACD")
    /\ \E p \in 1..Len(S1) : Gt(MacdGap(p), Num(0))

IndicatorColumns ==
    <<"MACD", "DIF", "DEA", "TRIX", "TRMA", "PDI", "MDI", "ADX", "ADXR",
      "DIF_DMA", "DIFMA_DMA", "K", "D", "J", "RSI", "PSY", "PSYMA", "WR", "WR1",
      "BIAS1", "BIAS2", "BIAS3", "CCI", "VR", "AR", "BR", "EMV", "MAEMV",
      "ROC", "MAROC", "MTM", "MTMMA", "DPO", "MADPO", "MA5", "MA10", "MA20",
      "MA60", "BOLL_UP", "BOLL_MID", "BOLL_LOW", "ATR">>

C13_WorksOnACopy ==
    [][(out = Pending /\ out' # Pending) =>
         /\ df' = df
         /\ out'.ret = "table" =>
              /\ \A c \in DOMAIN AllOk : out'.base[c] = df[c]
              /\ \A c \in ModelledCols : Len(out'.vals[c]) = df.n
              /\ out'.columns = IndicatorColumns]_vars

C13_Witness ==
    /\ out.ret = "table" /\ df.n = MaxBars /\ df.added = <<>>
    /\ out.base.close = df.close /\ Len(out.columns) = 42

\* ---- C14: for OHLCV with low <= close <= high on every bar, every
\* non-NaN value of RSI, of KDJ's K and D and of WR and WR1 lies in
\* [0, 100]; J may leave that range
InRange(v) == IsNaN(v) \/ (Le(Num(0), v) /\ Le(v, Num(100)))

C14_OscillatorsBounded ==
    /\ Called("RSI") => \A p \in 1..Len(S1) : InRange(ret.val[1][p])
    /\ Called("KDJ") =>
          \A p \in 1..Len(S1) : InRange(ret.val[1][p]) /\ InRange(ret.val[2][p])
    /\ Called("WR") =>
          \A p \in 1..Len(S1) : InRange(ret.val[1][p]) /\ InRange(ret.val[2][p])

\* K and D are numbers within the range at an index where J is below 0 or
\* above 100
C14_Witness ==
    /\ Called("KDJ")
    /\ \E p \in 1..Len(S1) :
          /\ IsNum(ret.val[1][p]) /\ IsNum(ret.val[2][p])
          /\ ~InRange(ret.val[3][p])

\* ---- C15 (as claimed): when high[i] = low[i] on every bar, no indicator
\* raises, ATR is 0 wherever it is defined and WR and CCI are NaN at every
\* index
DegenerateBars == Len(S1) = Len(S2) /\ \A i \in 1..Len(S2) : S2[i] = 0

FlatOutputs ==
    /\ ret.fn \in {"ATR", "WR", "CCI", "KDJ", "VR"} => ret.kind # "raise"
    /\ Called("ATR") =>
          \A p \in 1..Len(S1) : IsNaN(ret.val[1][p]) \/ ret.val[1][p] = Num(0)
    /\ Called("WR") =>
          \A p \in 1..Len(S1) : IsNaN(ret.val[1][p]) /\ IsNaN(ret.val[2][p])
    /\ Called("CCI") => \A p \in 1..Len(S1) : IsNaN(ret.val[1][p])

C16_SingleGoldenCross ==
    Called("CROSS_MA") =>
        LET MA5 == MA(Ints(S1), 5)
            MA20 == MA(Ints(S1), 20)
            Above == {p \in 1..Len(S1) : Gt(MA5[p], MA20[p])}
            Fired == {p \in 1..Len(S1) : ret.val[1][p]}
        IN  /\ Fired = {p \in Above : \A q \in Above : p <= q}
            /\ Fired = IF Len(S1) >= 20 THEN {20} ELSE {}

C16_Witness ==
    /\ Called("CROSS_MA") /\ Len(S1) = 60
    /\ ret.val[1][20] /\ ~ret.val[1][19] /\ ~ret.val[1][21]

\* ---- C17: a caller of a name MyTT defines twice gets the later
\* definition; VR[i] is 100 * (volume of the bars of the window whose close
\* is above the previous close) / (volume of the bars whose close is at or
\* below the previous close): the volume of an unchanged close counts
\* wholly in the denominator
DupNames == {Defs[i].name : i \in 1..Len(Defs)}
LinesOf(name) == {Defs[i].line : i \in {j \in 1..Len(Defs) : Defs[j].name = name}}

UpVol(c, v) == [j \in 1..Len(c) |-> IF j > 1 /\ c[j] > c[j - 1] THEN v[j] ELSE 0]
DownVol(c, v) == [j \in 1..Len(c) |-> IF j > 1 /\ c[j] <= c[j - 1] THEN v[j] ELSE 0]

C17_LaterDefinitionWins ==
    /\ \A name \in DupNames :
          /\ Cardinality(LinesOf(name)) = 2
          /\ \A l \in LinesOf(name) : l <= Bound(name)
    /\ Called("VR") =>
          \A p \in 1..Len(S1) :
              ret.val[1][p] =
                  IF p < ret.n THEN NaN
                  ELSE Mul(Div(Num(WinSum(UpVol(S1, S2), ret.n, p)),
                               Num(WinSum(DownVol(S1, S2), ret.n, p))), Num(100))

\* a window with a rise, a fall and an unchanged close, all with volume
C17_Witness ==
    /\ Called("VR") /\ ret.n = 3 /\ Len(S1) = 3
    /\ S1[1] = S1[2] /\ S1[3] > S1[2]
    /\ S2[2] > 0 /\ S2[3] > 0
    /\ IsNum(ret.val[1][3])

\* ---- C18 (as claimed): for every boolean series S, of any length, and all
\* A > B >= 0, LAST(S,A,B) is true iff every element of the slice S[-A:-B]
\* is true
SliceIndices(n, A, B) ==
    {i \in 0..(n - 1) :
        /\ i >= (IF n - A > 0 THEN n - A ELSE 0)
        /\ i < (IF B = 0 THEN 0 ELSE IF n - B > 0 THEN n - B ELSE 0)}

C18_LastIsAllOfSlice ==
    (Called("LAST") /\ ret.n > ret.m) =>
        (ret.val[1] <=>
            \A i \in SliceIndices(Len(S1), ret.n, ret.m) : S1[i + 1] > 0)

\* ---- C19: BARSLAST(S) is -1 when no element of S is true, otherwise
\* n - 1 - j for the largest index j at which S is true; it lies in -1..n-1
TrueIndices == {i \in 0..(Len(S1) - 1) : S1[i + 1] > 0}

C19_BarsSinceLastTrue ==
    Called("BARSLAST") =>
        LET n == Len(S1)
            r == ret.val[1]
        IN  /\ r \in -1..(n - 1)
            /\ TrueIndices = {} => r = -1
            /\ \A j \in TrueIndices :
                  (\A h \in TrueIndices : h <= j) => r = n - 1 - j

\* several true elements, the last of them before the end of the series
C19_Witness ==
    /\ Called("BARSLAST")
    /\ Cardinality(TrueIndices) >= 2
    /\ S1[Len(S1)] = 0
    /\ ret.val[1] >= 1

\* ---- C20: EVERY(B,N)[i] is true exactly when COUNT(B,N)[i] = N and
\* EXIST(B,N)[i] exactly when COUNT(B,N)[i] > 0, COUNT being the N-window
\* rolling sum; both are false at every warm-up index i < N-1, true
\* elements there or not; EVERY(B,N)[i] implies EXIST(B,N)[i]
TruesInWindow(N, p) == Cardinality({j \in (p - N + 1)..p : S1[j] > 0})

C20_EveryExistFollowCount ==
    /\ Called("EVERY") =>
          \A p \in 1..Len(S1) :
              /\ ret.val[1][p] <=> EqF(COUNT(Bools(S1), ret.n)[p], Num(ret.n))
              /\ ret.val[1][p] <=> (p >= ret.n /\ TruesInWindow(ret.n, p) = ret.n)
              /\ ret.val[1][p] => EXIST(Bools(S1), ret.n)[p]
    /\ Called("EXIST") =>
          \A p \in 1..Len(S1) :
              /\ ret.val[1][p] <=> Gt(COUNT(Bools(S1), ret.n)[p], Num(0))
              /\ ret.val[1][p] <=> (p >= ret.n /\ TruesInWindow(ret.n, p) > 0)

\* EXIST is false at a warm-up index that holds a true element, and true
\* later in a window that holds a false one too
C20_Witness ==
    /\ Called("EXIST") /\ ret.n >= 2 /\ Len(S1) > ret.n
    /\ S1[1] > 0 /\ ~ret.val[1][1]
    /\ \E p \in ret.n..Len(S1) :
          ret.val[1][p] /\ TruesInWindow(ret.n, p) < ret.n

\* ---- C21 (as claimed): for 2 <= N <= len(S), SLOPE(S,N) is the fitted
\* value at the last x minus the fitted value at the first x of the
\* least-squares line through the last N points (x = 0..N-1)
LsqSlope(N) ==
    LET n == Len(S1)
        xy == [j \in 1..n |-> (j - (n - N + 1)) * S1[j]]
        sx == (N * (N - 1)) \div 2
        sxx == ((N - 1) * N * (2 * N - 1)) \div 6
    IN  Rat(N * WinSum(xy, N, n) - sx * WinSum(S1, N, n), N * sxx - sx * sx)

SlopeInScope == Called("SLOPE") /\ ret.n >= 2 /\ ret.n <= Len(S1)

C21_SlopeIsLastMinusFirst ==
    SlopeInScope =>
        /\ ret.kind = "scalar"
        /\ ret.val[1] = Mul(LsqSlope(ret.n), Num(ret.n - 1))

\* ---- C21 (amended): for 2 <= N <= len(S), SLOPE(S,N) is the slope of that
\* line: the fitted value at x = 1 minus the fitted value at x = 0
C21_SlopeIsPerBar ==
    SlopeInScope =>
        /\ ret.kind = "scalar"
        /\ ret.val[1] = LsqSlope(ret.n)

C21_Witness ==
    /\ SlopeInScope /\ ret.n >= 3
    /\ ret.kind = "scalar" /\ ret.val[1] # Num(0)

\* ---- C22 (as claimed): on a table of 1 to 59 bars with all five numeric
\* columns calculate_all_indicators returns a table of as many rows, in
\* which every rolling indicator whose window exceeds the number of bars is
\* NaN at every row
WindowOf(c) ==
    CASE c = "RSI" -> RSI_N
      [] c = "MA5" -> 5
      [] c = "MA10" -> 10
      [] c = "MA20" -> 20
      [] c = "MA60" -> 60

ShortTable == Done /\ df.bad = AllOk /\ df.n >= 1 /\ df.n < WarnBars

AllRows(c, v) == \A p \in 1..df.n : out.vals[c][p] = v

C22_ShortTableAllNaN ==
    ShortTable =>
        /\ out.ret = "table"
        /\ \A c \in ModelledCols :
              /\ Len(out.vals[c]) = df.n
              /\ WindowOf(c) > df.n => AllRows(c, NaN)

\* ---- C22 (amended): ... is NaN at every row, except the RSI column,
\* which holds 50 at every such row
C22_ShortTableNaNOrFilled ==
    ShortTable =>
        /\ out.ret = "table"
        /\ \A c \in ModelledCols :
              /\ Len(out.vals[c]) = df.n
              /\ WindowOf(c) > df.n =>
                    AllRows(c, IF c = "RSI" THEN Num(RSI_FILL) ELSE NaN)

\* a single bar, and a table on which MA5 and MA10 have values while MA20
\* and MA60 have none
C22_Witness ==
    /\ ShortTable /\ df.n >= 10 /\ df.n < RSI_N
    /\ out.ret = "table"
    /\ IsNum(out.vals["MA10"][df.n]) /\ IsNaN(out.vals["MA60"][df.n])
    /\ out.vals["RSI"][df.n] = Num(RSI_FILL)

\* ---- C23: validate_data returns (True, ...) iff the table is not None,
\* not empty, has all of open/high/low/close/volume, has at least 10 rows
\* and none of the five columns is all NaN; otherwise it returns (False,
\* message) for the first failing check in that order; a table of 10 to 59
\* rows is accepted, and calculate_all_indicators only warns about it
Validated == valid # NoValid
HasStatus(status) == {c \in DOMAIN df.bad : df.bad[c] = status}

C23_ValidateData ==
    Validated =>
        /\ valid.ok <=>
              /\ df.kind = "table"
              /\ HasStatus("missing") = {}
              /\ df.n >= 10
              /\ HasStatus("allnan") = {}
        /\ valid.msg =
              (IF df.kind = "none" THEN "none"
               ELSE IF df.n = 0 THEN "empty"
               ELSE IF HasStatus("missing") # {} THEN "missing columns"
               ELSE IF df.n < 10 THEN "few rows"
               ELSE IF HasStatus("allnan") # {} THEN "all NaN"
               ELSE "passed")
        /\ valid.msg = "missing columns" => Range(valid.cols) = HasStatus("missing")
        /\ valid.msg = "all NaN" =>
              /\ Len(valid.cols) = 1 /\ valid.cols[1] \in HasStatus("allnan")
              /\ \A i \in 1..Len(ValidateColumns) :
                    ValidateColumns[i] \in HasStatus("allnan") =>
                        \E j \in 1..i : ValidateColumns[j] = valid.cols[1]
        /\ (valid.ok /\ Done /\ df.n < 60) =>
              \E i \in 1..Len(out.log) : out.log[i][1] = "warning"

\* an accepted table of fewer than 60 rows, with the warning logged
C23_Witness ==
    /\ Validated /\ Done /\ valid.ok
    /\ df.n >= 10 /\ df.n < 60 /\ out.ret = "table"

\* ---- C24 (as claimed): a successful result of calculate_all_indicators
\* has at least one column for every Layer-2 indicator with default
\* parameters, OBV and CMF among them
Layer2Names ==
    {"MACD", "KDJ", "RSI", "OBV", "ADL", "CMF", "TRIX", "DMA", "CCI", "PSY",
     "BIAS", "DMI", "VR", "BRAR", "EMV", "ROC", "MTM", "DPO", "ATR", "BOLL",
     "WR", "BBI"}

ColumnsFor(ind) ==
    IF \E i \in 1..Len(Calls) : Calls[i].ind = ind
    THEN UNION {Range(Calls[i].cols) : i \in {j \in 1..Len(Calls) : Calls[j].ind = ind}}
    ELSE {ind}

C24_EveryIndicatorHasAColumn ==
    (Done /\ out.ret = "table") =>
        \A ind \in Layer2Names : ColumnsFor(ind) \cap Range(out.columns) # {}

\* ---- C25: for close and volume of one length n >= 1, OBV[0] = volume[0]
\* and each step OBV[i] - OBV[i-1] is +volume[i] on a higher close,
\* -volume[i] on a lower close and 0 on an unchanged one; close and volume
\* are as they were
C25_ObvSteps ==
    Called("OBV") =>
        LET obv == ret.val[1]
        IN  /\ Len(obv) = Len(S1)
            /\ obv[1] = Num(S2[1])
            /\ \A p \in 2..Len(S1) :
                  Sub(obv[p], obv[p - 1]) =
                      Num(IF S1[p] > S1[p - 1] THEN S2[p]
                          ELSE IF S1[p] < S1[p - 1] THEN 0 - S2[p]
                          ELSE 0)
            /\ \A p \in 1..Len(S1) : S1[p] \in Vals /\ S2[p] \in Vals

\* a rise, a fall and an unchanged close, all with volume
C25_Witness ==
    /\ Called("OBV") /\ Len(S1) = 3
    /\ S1[2] > S1[1] /\ S1[3] < S1[2] /\ S2[2] > 0 /\ S2[3] > 0
    /\ ret.val[1][3] = Num(S2[1] + S2[2] - S2[3])

\* ---- C26: the cache of a DataFetcher holds exactly the requests (code,
\* count, frequency) whose data-source call returned a table with rows
\* since the last clear_cache: a request with a stored entry returns the
\* stored table and does not call the data source; a request that fails
\* (exception, None, empty table) returns None and stores nothing;
\* clear_cache empties the cache
RequestKey(req) == <<req[1], IF req[2] = 0 THEN 120 ELSE req[2], req[3]>>

C26_CacheFollowsSource ==
    [][/\ fetched'.op = "clear" => data_cache' = <<>>
       /\ fetched'.op = "fetch" =>
             LET key == RequestKey(fetched'.req)
                 src == fetched'.source
             IN  IF key \in DOMAIN data_cache
                 THEN /\ fetched'.result = data_cache[key]
                      /\ ~fetched'.asked
                      /\ data_cache' = data_cache
                 ELSE /\ fetched'.asked
                      /\ src \in {"raise", "None", "empty"} =>
                            fetched'.result = "None" /\ data_cache' = data_cache
                      /\ src \notin {"raise", "None", "empty"} =>
                            /\ fetched'.result = src
                            /\ DOMAIN data_cache' = DOMAIN data_cache \cup {key}
                            /\ data_cache'[key] = src
                            /\ \A k \in DOMAIN data_cache :
                                  data_cache'[k] = data_cache[k]]_vars

\* a request without a count answered from the entry stored for count 120,
\* although the data source would now return another table
C26_Witness ==
    /\ fetched.op = "fetch" /\ ~fetched.asked
    /\ fetched.req[2] = 0
    /\ fetched.result = "tableA" /\ fetched.source = "tableB"
    /\ Cardinality(DOMAIN data_cache) >= 2

\* ---- C27: run_analysis performs fetch data, calculate indicators,
\* generate report, save report in this order and stops at the first step
\* that fails; it returns output_path exactly when all four steps
\* succeeded (a stock fetched, a stock's indicators computed, the report
\* generated and written) and None otherwise, and raises nothing; a stock
\* whose indicator computation fails is left out of processed_data_dict
\* and the other stocks are processed
StepNames == <<"fetch", "calculate", "report", "save">>
Computes(token) == calculate_all_indicators(TableOf(token)).ret = "table"
Steps == run.steps
StepOk(i) == Len(Steps) >= i /\ Steps[i].ok

C27_RunAnalysisPipeline ==
    /\ Len(Steps) <= 4
    /\ \A i \in 1..Len(Steps) : Steps[i].step = StepNames[i]
    /\ \A i \in 1..(Len(Steps) - 1) : Steps[i].ok
    /\ run.returned \in {"pending", "None", "output_path"}
    /\ run.returned = "output_path" <=> \A i \in 1..4 : StepOk(i)
    /\ run.returned = "None" <=> (Steps # <<>> /\ ~Steps[Len(Steps)].ok)
    /\ (run.pc = "idle" /\ run.runs > 0) => run.returned # "pending"
    /\ Len(Steps) >= 1 => (Steps[1].ok <=> DOMAIN data_dict # {})
    /\ Len(Steps) >= 2 =>
          /\ Steps[2].ok <=> \E c \in DOMAIN data_dict : Computes(data_dict[c])
          /\ \A c \in DOMAIN data_dict :
                c \in DOMAIN processed_data_dict <=> Computes(data_dict[c])
    /\ Len(Steps) >= 4 => (Steps[4].ok => run.html = "html")

\* a run that returned output_path although the first stock of the pool
\* failed in the indicator step and only the second one was processed
C27_Witness ==
    /\ run.returned = "output_path"
    /\ DOMAIN data_dict = {"sh600036", "sz000001"}
    /\ DOMAIN processed_data_dict = {"sz000001"}

\* ---- C28 (as claimed): with interactive charts enabled, every
\* multi-timeframe chart the report asks for resolves the code of the stock
\* it is asked for and requests that code's daily, weekly and monthly data
\* from the data fetcher
CodeOf(stock_name) ==
    LET i == CHOOSE i \in 1..Len(stock_names) : stock_names[i][1] = stock_name
    IN  stock_names[i][2]

C28_ChartRequestsTheStocksCode ==
    interactive_charts =>
        \A k \in 1..Len(run.charts) :
            LET chart == run.charts[k]
                code == CodeOf(chart.stock_name)
            IN  /\ chart.stock_code = code
                /\ chart.requests = <<<<code, 60, "1d">>, <<code, 60, "1w">>,
                                      <<code, 60, "1M">>>>

\* ---- C29: generate_trading_signals returns a non-empty list and raises
\* nothing: for a table of fewer than 2 rows exactly the insufficient-data
\* message; otherwise the non-empty messages of the MACD, KDJ, RSI, BOLL,
\* DMI, VR and ROC analyses in this order, at most one per analysis and
\* none for an analysis whose columns are missing, or the single
\* no-clear-signal message when no analysis fires
AnalysisOrder == <<"MACD", "KDJ", "RSI", "BOLL", "DMI", "VR", "ROC">>
MessagesOf ==
    [MACD |-> {"MACD golden cross", "MACD dead cross"},
     KDJ |-> {"KDJ oversold", "KDJ overbought"},
     RSI |-> {"RSI oversold", "RSI overbought"},
     BOLL |-> {"above upper band", "below lower band"},
     DMI |-> {"DMI golden cross", "DMI dead cross"},
     VR |-> {"VR above 160", "VR below 40"},
     ROC |-> {"ROC crosses up", "ROC crosses down"}]
ColumnsOf ==
    [MACD |-> {"MACD"}, KDJ |-> {"K", "D"}, RSI |-> {"RSI"},
     BOLL |-> {"close", "BOLL_UP", "BOLL_LOW"}, DMI |-> {"PDI", "MDI"},
     VR |-> {"VR"}, ROC |-> {"ROC", "MAROC"}]
RankOf(m) == CHOOSE i \in 1..7 : m \in MessagesOf[AnalysisOrder[i]]
Analysed(t) == <<analyze_macd(t), analyze_kdj(t), analyze_rsi(t), analyze_boll(t),
                 analyze_dmi(t), analyze_volume(t), analyze_roc(t)>>

C29_SignalsList ==
    signals.done =>
        LET list == signals.list
            fired == {i \in 1..7 : Analysed(sig_df)[i] # ""}
        IN  /\ list # <<>>
            /\ sig_df.n < 2 => list = <<"insufficient data">>
            /\ sig_df.n >= 2 =>
                  /\ fired = {} <=> list = <<"no clear signal">>
                  /\ fired # {} =>
                        /\ Len(list) = Cardinality(fired)
                        /\ \A k \in 1..Len(list) :
                              /\ list[k] \in UNION {MessagesOf[a] : a \in DOMAIN MessagesOf}
                              /\ RankOf(list[k]) \in fired
                              /\ list[k] = Analysed(sig_df)[RankOf(list[k])]
                        /\ \A k \in 1..(Len(list) - 1) :
                              RankOf(list[k]) < RankOf(list[k + 1])
                  /\ \A i \in 1..7 :
                        ~(ColumnsOf[AnalysisOrder[i]] \subseteq DOMAIN sig_df.cols)
                            => \A k \in 1..Len(list) :
                                  list[k] \notin MessagesOf[AnalysisOrder[i]]

\* a table of 3 rows without a MACD column for which the DMI and the VR
\* analysis both fire
C29_Witness ==
    /\ signals.done /\ sig_df.n = 3
    /\ "MACD" \notin DOMAIN sig_df.cols
    /\ \E k \in 1..(Len(signals.list) - 1) :
          /\ signals.list[k] = "DMI dead cross"
          /\ signals.list[k + 1] = "VR below 40"

\* ---- C30: for every stock given to select_stocks the final signal is
\* the vote over the trend, breakout and AI sentiment signals: buy iff
\* strictly more of them say buy than sell, sell iff strictly more say
\* sell than buy, hold on a tie (one buy against one sell included); the
\* result has exactly one entry per stock given, and a missing AI
\* sentiment votes hold
Votes(e, v) == Cardinality({i \in 1..3 : e.votes[i] = v})
NoSentimentFor(code) ==
    \/ ~ai_sentiments.given
    \/ code \notin DOMAIN ai_sentiments.scores

C30_SimpleVoting ==
    results.done =>
        /\ DOMAIN results.entries = DOMAIN stock_data_dict
        /\ \A code \in DOMAIN stock_data_dict :
              LET e == results.entries[code]
              IN  /\ e.signal \in {"buy", "sell", "hold"}
                  /\ e.signal = "buy" <=> Votes(e, "buy") > Votes(e, "sell")
                  /\ e.signal = "sell" <=> Votes(e, "sell") > Votes(e, "buy")
                  /\ e.signal = "hold" <=> Votes(e, "buy") = Votes(e, "sell")
                  /\ NoSentimentFor(code) => e.votes[3] = "hold"

\* two stocks, one of them with a trend buy against a breakout sell and no
\* AI sentiment, which gives hold
C30_Witness ==
    /\ results.done /\ Cardinality(DOMAIN stock_data_dict) = 2
    /\ \E code \in DOMAIN stock_data_dict :
          /\ NoSentimentFor(code)
          /\ results.entries[code].votes = <<"buy", "sell", "hold">>
          /\ results.entries[code].signal = "hold"

=============================================================================
